---- MODULE Spec2Model ----
(***************************************************************************)
(* Model of sno-deploy-load.py: the interval release loop of main(), the   *)
(* shard materializer deploy_ztp_snos(), the two wait phases and the       *)
(* monitor thread that runs beside them.                                   *)
(*                                                                         *)
(* A unit is identified by its 0-based position in the sorted sno_list;    *)
(* its siteconfig path carries that position as the unit's name, so two    *)
(* units never share a name (glob returns distinct files of one            *)
(* directory).  A file is a record [app, name, kind]: the cluster          *)
(* application directory it lies in, the unit it belongs to (NoName for a  *)
(* kustomization.yaml) and what it is.                                     *)
(***************************************************************************)
EXTENDS Integers, Sequences, FiniteSets, TLC

\* ------------------------------------------------------------------ bounds
MaxUnits == 5
MaxPerApp == 3
MaxBatch == 3
MaxTime == 125
MaxHosts == 2
MaxNames == 2
MaxItems == 1
MaxClusters == 2
MaxEntries == 3

\* ------------------------------------------------------- program constants
PollSleep == 30

NoName == -1
NoIndex == -1

Min(a, b) == IF a < b THEN a ELSE b
Max(a, b) == IF a > b THEN a ELSE b
Range(s) == {s[i] : i \in 1..Len(s)}

VARIABLES
  cliargs,            \* parsed command line (fixed for the run)
  env,                \* what the run finds outside: files on disk, fleet
  pc,                 \* position of the primary task
  exit_code,          \* process exit code, NoIndex while running
  sno_list,           \* sorted siteconfig paths
  ztp_deploy_apps,    \* app index -> [location, snos]
  total_intervals,
  start_sno_index,
  end_sno_index,
  start_interval_time,
  idx,                \* loop position inside the current batch
  last_ztp_app_index,
  ztp_app_index,      \* NoIndex while the name is unbound
  git_files,          \* files handed to git add in this pass
  disk,               \* unit files present in the app directories
  manifests,          \* app index -> kustomization.yaml last written
  renders,            \* every kustomization render of the run, in order
  commits,            \* every git commit of the run, in order
  pushes,             \* number of git push calls
  released,           \* units handed to release, in order
  step_sizes,         \* number of units of every release step, in order
  report_dir,         \* TRUE once the results directory exists
  monitor_data,       \* the shared counters
  monitor_thread,     \* "new", "running", "stopped"
  signal,             \* monitor_thread.signal
  now,                \* wall clock
  wait_sno_start_time,
  wait_du_profile_start_time,
  sno_outcome,        \* how install-wait ended
  du_outcome,         \* how policy-wait ended
  end_time,           \* end of the last phase, taken before the end delay
  git_failed,         \* TRUE once a git command has returned non-zero
  apply_failed,       \* TRUE once an oc apply has returned non-zero
  fleet,              \* what the Monitor's latest query of the fleet showed
  pending,            \* the counters of that tick not yet written
  reads,              \* the counter values the current poll has read so far
  last_rc,            \* rc, the exit code of the last external command
  output,             \* parsed output of the last external command
  version,            \* cluster-health: what get_version returned
  healthy,            \* cluster-health: number of check groups that failed
  checks,             \* cluster-health: check group -> how it went
  aci_snos,           \* analyze: snos, the units whose install completed
  sno_pos,            \* analyze: position of the loop over snos
  snos_unreachable,
  snos_ver_data,      \* analyze: version -> [state, count, completed_durations]
  snos_duplicate_entries,
  seen                \* analyze: the <<unit, version, state>> entries processed

vars == <<cliargs, env, pc, exit_code, sno_list, ztp_deploy_apps,
          total_intervals, start_sno_index, end_sno_index,
          start_interval_time, idx, last_ztp_app_index, ztp_app_index,
          git_files, disk, manifests, renders, commits, pushes, released,
          step_sizes, report_dir,
          monitor_data, monitor_thread, signal, now, wait_sno_start_time,
          wait_du_profile_start_time, sno_outcome, du_outcome, end_time,
          git_failed, apply_failed, fleet, pending, reads, last_rc, output,
          version, healthy, checks, aci_snos, sno_pos, snos_unreachable,
          snos_ver_data, snos_duplicate_entries, seen>>

\* --------------------------------------------------------------- helpers

\* Python's s[lo:hi] for 0 <= lo: both ends are clipped to the length.
Slice(s, lo, hi) ==
  IF lo >= Min(hi, Len(s)) THEN <<>>
  ELSE SubSeq(s, lo + 1, Min(hi, Len(s)))

\* glob(".../siteconfigs/sno*-siteconfig.yml") followed by sort()
SiteconfigPath(i) == [dir |-> "siteconfigs", name |-> i, kind |-> "siteconfig"]
GlobSiteconfigs(n) == [i \in 1..n |-> SiteconfigPath(i - 1)]

\* os.path.basename(sno).replace("-siteconfig.yml", "")
sno_name_of(path) == path.name

File(app, name, kind) == [app |-> app, name |-> name, kind |-> kind]

\* faulty variant: the rendered text carries a serial number
kustomization_templateNumbered(snos) ==
  [generators |-> [i \in 1..Len(snos) |-> File(NoIndex, snos[i], "siteconfig")],
   resources  |-> [i \in 1..Len(snos) |-> File(NoIndex, snos[i], "resources")],
   serial     |-> Len(renders)]

\* kustomization_template rendered over a member list
kustomization_template(snos) ==
  [generators |-> [i \in 1..Len(snos) |-> File(NoIndex, snos[i], "siteconfig")],
   resources  |-> [i \in 1..Len(snos) |-> File(NoIndex, snos[i], "resources")]]

ZeroCounters ==
  [sno_applied_committed |-> 0, sno_init |-> 0, sno_install_failed |-> 0,
   sno_install_completed |-> 0, policy_init |-> 0, policy_timedout |-> 0,
   policy_compliant |-> 0]

\* ---------------------------------------------------------- initial states
BaseArgs ==
  [rate |-> "interval", start |-> 0, end |-> 0, batch |-> 1, interval |-> 0, snos_per_app |-> 1,
   start_delay |-> 0, end_delay |-> 0, wait_sno_max |-> 0,
   wait_du_profile_max |-> 0, wait_du_profile |-> FALSE,
   skip_wait_sno |-> TRUE, dry_run |-> FALSE, method |-> "ztp",
   monitor_interval |-> 10, ztp_client_templates |-> FALSE]

BaseEnv ==
  [snos |-> 1, apps |-> 1, missing |-> NoIndex, hosts |-> 0, policies |-> 0,
   step_time |-> 0]

\* shards needed to hold n units at capacity c
AppsNeeded(n, c) == (n + c - 1) \div c

\* Runs that sweep the release loop: every inventory size, capacity, batch
\* size, start and end index, with just enough shards or one too few.
ReleaseRuns ==
  UNION { UNION { UNION {
    { [cli |-> [BaseArgs EXCEPT !.start = s, !.end = e, !.batch = b,
                                !.snos_per_app = c, !.dry_run = d],
       env |-> [BaseEnv EXCEPT !.snos = n,
                  !.apps = AppsNeeded(n, c) - (IF short THEN 1 ELSE 0)]] :
        b \in 1..MaxBatch, c \in 1..MaxPerApp, d \in BOOLEAN,
        short \in BOOLEAN } :
      e \in {0} \cup (s + 1)..(n + 1) } :
      s \in 0..(n + 1) } :
      n \in 1..MaxUnits }

\* Runs of the manifests method (oc apply per unit).
ManifestRuns ==
  { [cli |-> [BaseArgs EXCEPT !.method = "manifests", !.start = s, !.batch = b,
                              !.dry_run = d],
     env |-> [BaseEnv EXCEPT !.snos = n, !.apps = 0]] :
      n \in 1..2, s \in 0..2, b \in 1..2, d \in BOOLEAN }

\* Runs that sweep the wait phases: every choice of skipped or awaited
\* phases and timeout budgets, over fleets of 1..MaxHosts hosts without
\* policies and a one-host fleet with a policy.
WaitRuns ==
  UNION { UNION {
    { [cli |-> [BaseArgs EXCEPT !.batch = MaxBatch, !.snos_per_app = MaxPerApp,
                                !.skip_wait_sno = z, !.wait_du_profile = w,
                                !.wait_sno_max = ms, !.wait_du_profile_max = md,
                                !.dry_run = d],
       env |-> [BaseEnv EXCEPT !.snos = h, !.hosts = h, !.policies = p,
                               !.apps = AppsNeeded(h, MaxPerApp)]] :
        z \in BOOLEAN, w \in BOOLEAN, ms \in {0, PollSleep},
        md \in {0, PollSleep}, d \in BOOLEAN } :
      p \in IF h = 1 THEN {0, 1} ELSE {0} } :
      h \in 1..MaxHosts }

\* Runs with delays, an interval between batches and client templates.
TimedRuns ==
  { [cli |-> [BaseArgs EXCEPT !.interval = i, !.start_delay = sd,
                              !.end_delay = ed, !.ztp_client_templates = ct,
                              !.snos_per_app = 2, !.dry_run = d],
     env |-> [BaseEnv EXCEPT !.snos = 2, !.step_time = st]] :
      i \in {0, 10}, sd \in {0, 15}, ed \in {0, 20}, ct \in BOOLEAN,
      st \in {0, 5, 15}, d \in BOOLEAN }

\* Runs that pre-flight turns down: a bad argument, no unit, a unit without
\* its resources file.
RejectedRuns ==
  { [cli |-> a, env |-> BaseEnv] :
      a \in { [BaseArgs EXCEPT !.start = -1], [BaseArgs EXCEPT !.end = -1],
              [BaseArgs EXCEPT !.start = 1, !.end = 1],
              [BaseArgs EXCEPT !.start = 2, !.end = 1],
              [BaseArgs EXCEPT !.monitor_interval = 9],
              [BaseArgs EXCEPT !.batch = 0], [BaseArgs EXCEPT !.interval = -1],
              [BaseArgs EXCEPT !.snos_per_app = 0] } }
  \cup { [cli |-> [BaseArgs EXCEPT !.method = m], env |-> e] :
      m \in {"ztp", "manifests"},
      e \in { [BaseEnv EXCEPT !.snos = 0], [BaseEnv EXCEPT !.missing = 0],
              [BaseEnv EXCEPT !.apps = 0] } }

Runs == ReleaseRuns \cup ManifestRuns \cup WaitRuns \cup TimedRuns \cup RejectedRuns

Init ==
  /\ \E r \in Runs : cliargs = r.cli /\ env = r.env
  /\ pc = "validate"
  /\ exit_code = NoIndex
  /\ sno_list = <<>>
  /\ ztp_deploy_apps = <<>>
  /\ total_intervals = 0
  /\ start_sno_index = 0
  /\ end_sno_index = 0
  /\ start_interval_time = 0
  /\ idx = 0
  /\ last_ztp_app_index = 0
  /\ ztp_app_index = NoIndex
  /\ git_files = <<>>
  /\ disk = {}
  /\ manifests = <<>>
  /\ renders = <<>>
  /\ commits = <<>>
  /\ pushes = 0
  /\ released = <<>>
  /\ step_sizes = <<>>
  /\ report_dir = FALSE
  /\ monitor_data = ZeroCounters
  /\ monitor_thread = "new"
  /\ signal = TRUE
  /\ now = 0
  /\ wait_sno_start_time = 0
  /\ wait_du_profile_start_time = 0
  /\ sno_outcome = "none"
  /\ du_outcome = "none"
  /\ end_time = 0
  /\ git_failed = FALSE
  /\ apply_failed = FALSE
  /\ fleet = ZeroCounters
  /\ pending = {}
  /\ reads = <<>>
  /\ last_rc = 0
  /\ output = <<>>
  /\ version = <<>>
  /\ healthy = 0
  /\ checks = <<>>
  /\ aci_snos = <<>>
  /\ sno_pos = 0
  /\ snos_unreachable = <<>>
  /\ snos_ver_data = <<>>
  /\ snos_duplicate_entries = <<>>
  /\ seen = {}

\* ------------------------------------------------------- variable groups
cfgVars == <<cliargs, env>>
discVars == <<sno_list, ztp_deploy_apps, report_dir>>
loopVars == <<total_intervals, start_sno_index, end_sno_index, start_interval_time>>
passVars == <<idx, last_ztp_app_index, ztp_app_index, git_files>>
repoVars == <<disk, manifests, renders, commits, pushes>>
histVars == <<released, step_sizes>>
monVars == <<monitor_thread, signal>>
waitVars == <<wait_sno_start_time, wait_du_profile_start_time, sno_outcome, du_outcome>>
raceVars == <<fleet, pending, reads>>
healthVars == <<last_rc, output, version, healthy, checks>>
analyzeVars == <<aci_snos, sno_pos, snos_unreachable, snos_ver_data,
                 snos_duplicate_entries, seen>>
toolVars == <<healthVars, analyzeVars>>

available_snos == Len(sno_list)
available_ztp_apps == Cardinality(DOMAIN ztp_deploy_apps)

\* sys.exit(code), or an uncaught exception (Python exits with 1)
Exit(code) == pc' = "exit" /\ exit_code' = code

\* ------------------------------------------------------------- pre-flight

\* faulty variant: the test of start against end is left out
ArgsRejectedNoOrder(a) ==
  \/ a.start < 0
  \/ a.end < 0
  \/ a.monitor_interval < 10
  \/ (a.rate = "interval" /\ ~(a.batch >= 1))
  \/ (a.rate = "interval" /\ ~(a.interval >= 0))

\* main(): parameter validation
ArgsRejected(a) ==
  \/ a.start < 0
  \/ a.end < 0
  \/ (a.end > 0 /\ a.start >= a.end)
  \/ a.monitor_interval < 10
  \/ (a.rate = "interval" /\ ~(a.batch >= 1))
  \/ (a.rate = "interval" /\ ~(a.interval >= 0))

Validate ==
  /\ pc = "validate"
  /\ IF ArgsRejected(cliargs)
       THEN Exit(1)
       ELSE pc' = "discover" /\ UNCHANGED exit_code
  /\ UNCHANGED <<cfgVars, toolVars, raceVars, apply_failed, end_time, git_failed, discVars, loopVars, passVars, repoVars, histVars,
                 monitor_data, monVars, now, waitVars>>

\* faulty variant: one application too few still counts as enough
CapacityShortByOne(apps, per_app, found) == (apps + 1) * per_app < found

\* faulty variant: the capacity of the shards is never found too small
CapacityNeverShort(apps, per_app, found) == FALSE

\* main(): the shards cannot hold the units found
CapacityShort(apps, per_app, found) == apps * per_app < found

\* main(): list the units and the cluster applications, check the companion
\* files, the unit count and the capacity, then create the results directory
Discover ==
  /\ pc = "discover"
  /\ LET found == GlobSiteconfigs(env.snos)
         apps  == IF cliargs.method = "ztp"
                  THEN [k \in 0..(env.apps - 1) |-> [location |-> k, snos |-> <<>>]]
                  ELSE <<>>
     IN
     IF env.missing # NoIndex /\ env.missing < Len(found)
     THEN /\ Exit(1)
          /\ sno_list' = found
          /\ UNCHANGED <<ztp_deploy_apps, report_dir>>
     ELSE
       /\ sno_list' = found
       /\ ztp_deploy_apps' = apps
       /\ IF Len(found) = 0
          THEN Exit(1) /\ UNCHANGED report_dir
          ELSE IF /\ cliargs.method = "ztp"
                  /\ CapacityShort(env.apps, cliargs.snos_per_app, Len(found))
          THEN Exit(1) /\ UNCHANGED report_dir
          ELSE /\ report_dir' = TRUE
               /\ pc' = "start_monitor"
               /\ UNCHANGED exit_code
  /\ UNCHANGED <<cfgVars, toolVars, raceVars, apply_failed, end_time, git_failed, loopVars, passVars, repoVars, histVars,
                 monitor_data, monVars, now, waitVars>>

\* sleep(d): the clock moves on by d, or by more when the wake-up is late
SleepEnds(d) == {t \in {now + d, now + d + 1} : t <= MaxTime}

\* main(): fresh counters, monitor thread started, start delay
StartMonitor ==
  /\ pc = "start_monitor"
  /\ monitor_data' = ZeroCounters
  /\ monitor_thread' = "running"
  /\ IF cliargs.start_delay > 0
       THEN now' \in SleepEnds(cliargs.start_delay)
       ELSE now' = now
  /\ start_sno_index' = cliargs.start
  /\ pc' = IF cliargs.rate = "interval" THEN "release" ELSE "wait_sno"
  /\ UNCHANGED <<cfgVars, toolVars, raceVars, apply_failed, end_time, git_failed, discVars, exit_code, total_intervals, end_sno_index,
                 start_interval_time, passVars, repoVars, histVars, signal,
                 waitVars>>

\* --------------------------------------------------------- release loop

\* faulty variant: the window is not clipped to --end
WindowEndUnclipped(start, batch, end) == start + batch

\* end of the window of one interval: start + batch, clipped to --end if set
WindowEnd(start, batch, end) ==
  IF end > 0 /\ start + batch > end THEN end ELSE start + batch

\* the units of the current window: sno_list[start_sno_index:end_sno_index]
Window == Slice(sno_list, start_sno_index, end_sno_index)

\* faulty variant: the shard index is taken from the 1-based position
AppIndexOneBased(position, snos_per_app) == (position + 1) \div snos_per_app

\* math.floor((start_index + idx) / snos_per_app)
AppIndexOf(position, snos_per_app) == position \div snos_per_app

\* faulty variant: the roll into the next app is never noticed
RollsOverNever(last, app) == FALSE

\* faulty variant: the roll-over is seen one shard late
RollsOverLate(last, app) == last + 1 < app

\* "if last_ztp_app_index < ztp_app_index": the batch rolls into the next app
RollsOver(last, app) == last < app

\* faulty variant: last_ztp_app_index is not moved on when the batch rolls over
LastAppStale(last, app) == last

\* value of last_ztp_app_index after the roll-over test of one iteration
LastAppAfterRoll(last, app) == IF RollsOver(last, app) THEN app ELSE last

\* faulty variant: the resources file is forgotten
UnitFilesSiteconfigOnly(app, name) == <<File(app, name, "siteconfig")>>

\* the files of one unit that a pass copies into an application directory
UnitFiles(app, name) ==
  <<File(app, name, "siteconfig"), File(app, name, "resources")>>

\* the extra-manifests of one unit (--ztp-client-templates)
ClientTemplateFiles(app, name) ==
  <<File(app, name, "01-ns"), File(app, name, "test-cm")>>

\* one rendered kustomization.yaml: which app, from which member list
Rendering(app, snos) ==
  [app |-> app, snos |-> snos, text |-> kustomization_template(snos)]

\* faulty variant: the units released are counted as started units
AppliedAsInit(data, count) == [data EXCEPT !.sno_init = @ + count]

\* faulty variant: a release step counts its nominal batch size
AppliedNominal(data, count) ==
  [data EXCEPT !.sno_applied_committed = @ + cliargs.batch]

\* main(): monitor_data["sno_applied_committed"] += count
Applied(data, count) == [data EXCEPT !.sno_applied_committed = @ + count]

\* main(): head of one interval, up to the call of the apply code
ReleaseStep ==
  /\ pc = "release"
  /\ total_intervals' = total_intervals + 1
  /\ start_interval_time' = now
  /\ end_sno_index' = WindowEnd(start_sno_index, cliargs.batch, cliargs.end)
  /\ LET window == Slice(sno_list, start_sno_index, end_sno_index')
     IN
     /\ step_sizes' = Append(step_sizes, Len(window))
     /\ IF cliargs.method = "ztp"
        THEN /\ monitor_data' = Applied(monitor_data, Len(window))
             /\ released' = released \o [i \in 1..Len(window) |-> sno_name_of(window[i])]
             /\ last_ztp_app_index' = AppIndexOf(start_sno_index, cliargs.snos_per_app)
             /\ pc' = "deploy_loop"
        ELSE /\ UNCHANGED <<monitor_data, released, last_ztp_app_index>>
             /\ pc' = "apply_loop"
  /\ idx' = 0
  /\ ztp_app_index' = NoIndex
  /\ git_files' = <<>>
  /\ UNCHANGED <<cfgVars, toolVars, raceVars, apply_failed, end_time, git_failed, discVars, exit_code, start_sno_index, repoVars,
                 monVars, now, waitVars>>

\* faulty variant: the manifest of the shard left behind is staged after the
\* files of the unit that rolled over
StagedManifestAfter(files, rolled, app, added) ==
  files \o added
        \o (IF rolled THEN <<File(app, NoName, "kustomization")>> ELSE <<>>)

\* deploy_ztp_snos(): git_files after one iteration: the manifest of the
\* application left behind, if the batch rolled over, then the unit's files
Staged(files, rolled, app, added) ==
  (IF rolled THEN Append(files, File(app, NoName, "kustomization")) ELSE files)
    \o added

\* faulty variant: a dry run copies and writes like any other run
WrittenInDryRun(dry_run, files, added) == files \cup added

\* deploy_ztp_snos(): "if not dry_run:" around every copy, makedirs and write
Written(dry_run, files, added) == IF dry_run THEN files ELSE files \cup added

\* faulty variant: the new member replaces the members of the shard
MemberReplaces(snos, name) == <<name>>

\* deploy_ztp_snos(): ztp_deploy_apps[ztp_app_index]["snos"].append(name)
AddMember(snos, name) == Append(snos, name)

\* deploy_ztp_snos(): one iteration of the loop over the window
DeployUnit ==
  /\ pc = "deploy_loop"
  /\ idx < Len(Window)
  /\ LET sno    == Window[idx + 1]
         app    == AppIndexOf(start_sno_index + idx, cliargs.snos_per_app)
         rolled == RollsOver(last_ztp_app_index, app)
         last   == LastAppAfterRoll(last_ztp_app_index, app)
         name   == sno_name_of(sno)
         old    == Rendering(last_ztp_app_index,
                             ztp_deploy_apps[last_ztp_app_index].snos)
         copied == UnitFiles(last, name)
         extra  == IF cliargs.ztp_client_templates
                   THEN ClientTemplateFiles(last, name) ELSE <<>>
     IN
     IF \/ app \notin DOMAIN ztp_deploy_apps
        \/ last \notin DOMAIN ztp_deploy_apps
        \/ (rolled /\ last_ztp_app_index \notin DOMAIN ztp_deploy_apps)
     THEN \* KeyError
          /\ Exit(1)
          /\ UNCHANGED <<ztp_deploy_apps, passVars, repoVars>>
     ELSE
       /\ renders' = IF rolled THEN Append(renders, old) ELSE renders
       /\ manifests' = IF rolled /\ ~cliargs.dry_run
                       THEN (last_ztp_app_index :> old.text) @@ manifests
                       ELSE manifests
       /\ last_ztp_app_index' = last
       /\ ztp_deploy_apps' = [ztp_deploy_apps EXCEPT ![app].snos = AddMember(@, name)]
       /\ disk' = Written(cliargs.dry_run, disk, Range(copied) \cup Range(extra))
       /\ git_files' = Staged(git_files, rolled, last_ztp_app_index,
                              copied \o extra)
       /\ ztp_app_index' = app
       /\ idx' = idx + 1
       /\ UNCHANGED <<pc, exit_code, commits, pushes>>
  /\ UNCHANGED <<cfgVars, toolVars, raceVars, apply_failed, end_time, git_failed, sno_list, report_dir, loopVars, histVars,
                 monitor_data, monVars, now, waitVars>>

\* utils.command: exit code of an external command; a dry run only echoes it
CommandRc(dry_run) == IF dry_run THEN {0} ELSE {0, 1}

\* deploy_ztp_snos(): after the loop, the unconditional render and the git
\* add / commit / push of everything collected in git_files; the exit codes
\* of the three git commands are assigned to rc and never looked at
DeployFinish ==
  /\ pc = "deploy_loop"
  /\ idx = Len(Window)
  /\ IF ztp_app_index = NoIndex
     THEN \* UnboundLocalError: the loop body never ran
          /\ Exit(1)
          /\ UNCHANGED <<passVars, repoVars, git_failed, now>>
     ELSE
       LET final == Rendering(ztp_app_index, ztp_deploy_apps[ztp_app_index].snos)
           files == Append(git_files, File(ztp_app_index, NoName, "kustomization"))
       IN
       /\ renders' = Append(renders, final)
       /\ manifests' = IF cliargs.dry_run THEN manifests
                       ELSE (ztp_app_index :> final.text) @@ manifests
       /\ git_files' = files
       /\ commits' = Append(commits, [start |-> start_sno_index,
                                      end |-> end_sno_index, files |-> files])
       /\ pushes' = pushes + 1
       /\ \E add_rc \in CommandRc(cliargs.dry_run),
             commit_rc \in CommandRc(cliargs.dry_run),
             push_rc \in CommandRc(cliargs.dry_run) :
            git_failed' = (git_failed \/ add_rc # 0 \/ commit_rc # 0 \/ push_rc # 0)
       /\ now' = now + env.step_time
       /\ pc' = "loop_check"
       /\ UNCHANGED <<exit_code, idx, last_ztp_app_index, ztp_app_index, disk>>
  /\ UNCHANGED <<cfgVars, toolVars, raceVars, apply_failed, end_time, discVars, loopVars, histVars, monitor_data,
                 monVars, waitVars>>

\* faulty variant: the exit code of oc apply is not looked at
ApplyFailedNever(rc) == FALSE

\* main(): "if rc != 0:" after the oc apply of a unit
ApplyFailed(rc) == rc # 0

\* main(), manifests method: oc apply of one unit of the window
ApplyUnit ==
  /\ pc = "apply_loop"
  /\ idx < Len(Window)
  /\ monitor_data' = Applied(monitor_data, 1)
  /\ released' = Append(released, sno_name_of(Window[idx + 1]))
  /\ idx' = idx + 1
  /\ \E rc \in CommandRc(cliargs.dry_run) :
        /\ apply_failed' = (apply_failed \/ rc # 0)
        /\ IF ApplyFailed(rc) THEN Exit(1) ELSE UNCHANGED <<pc, exit_code>>
  /\ UNCHANGED <<cfgVars, toolVars, raceVars, end_time, git_failed, discVars, loopVars, last_ztp_app_index, ztp_app_index,
                 git_files, repoVars, step_sizes, monVars, now, waitVars>>

\* main(), manifests method: the window is exhausted
ApplyDone ==
  /\ pc = "apply_loop"
  /\ idx = Len(Window)
  /\ now' = now + env.step_time
  /\ pc' = "loop_check"
  /\ UNCHANGED <<cfgVars, toolVars, raceVars, apply_failed, end_time, git_failed, discVars, exit_code, loopVars, passVars, repoVars,
                 histVars, monitor_data, monVars, waitVars>>

\* the loop's exit test, made after start_sno_index += batch
ReleaseDone(start, available, end_index, end) ==
  start >= available \/ end_index = end

\* main(): advance the start index and leave the loop or go on to the wait
LoopCheck ==
  /\ pc = "loop_check"
  /\ start_sno_index' = start_sno_index + cliargs.batch
  /\ pc' = IF ReleaseDone(start_sno_index', available_snos, end_sno_index, cliargs.end)
           THEN "wait_sno" ELSE "interval_wait"
  /\ UNCHANGED <<cfgVars, toolVars, raceVars, apply_failed, end_time, git_failed, discVars, exit_code, total_intervals, end_sno_index,
                 start_interval_time, passVars, repoVars, histVars,
                 monitor_data, monVars, now, waitVars>>

\* faulty variant: the deadline is the start of the step itself
IntervalDeadlineNow(step_start, interval) == step_start

\* main(): expected_interval_end_time = start_interval_time + interval
IntervalDeadline(step_start, interval) == step_start + interval

\* main(): sleep in slices until start_interval_time + interval
IntervalWait ==
  /\ pc = "interval_wait"
  /\ LET expected_interval_end_time ==
           IntervalDeadline(start_interval_time, cliargs.interval)
     IN IF now < expected_interval_end_time
        THEN now' \in {t \in {expected_interval_end_time,
                              expected_interval_end_time + 1} : t <= MaxTime}
        ELSE now' = now
  /\ pc' = "release"
  /\ UNCHANGED <<cfgVars, toolVars, raceVars, apply_failed, end_time, git_failed, discVars, exit_code, loopVars, passVars, repoVars,
                 histVars, monitor_data, monVars, waitVars>>

\* ----------------------------------------------------------- wait phases

\* faulty variant: the test that enough units have started is left out
InstallCompleteNoQuorum(data) ==
  data.sno_install_failed + data.sno_install_completed = data.sno_init

\* install-wait: inited >= applied/committed and failed + completed = inited
InstallComplete(data) ==
  /\ data.sno_init >= data.sno_applied_committed
  /\ data.sno_install_failed + data.sno_install_completed = data.sno_init

\* policy-wait: policy inited >= completed and timedout + compliant = inited
PolicyComplete(data) ==
  /\ data.policy_init >= data.sno_install_completed
  /\ data.policy_timedout + data.policy_compliant = data.policy_init

\* faulty variant: the timeout branch is never taken
PhaseNeverTimedOut(max, elapsed) == FALSE

\* faulty variant: a budget of 0 is treated as a budget
PhaseTimedOutAnyBudget(max, elapsed) == elapsed > max

\* the timeout test of a wait phase
PhaseTimedOut(max, elapsed) == max > 0 /\ elapsed > max

\* faulty variant: the timeout test comes first
PollOutcomeTimeoutFirst(complete, timedout) ==
  IF timedout THEN "timedout" ELSE IF complete THEN "completed" ELSE "none"

\* outcome of one poll: the completion test comes first
PollOutcome(complete, timedout) ==
  IF complete THEN "completed" ELSE IF timedout THEN "timedout" ELSE "none"

\* faulty variant: policy-wait runs whether requested or not
RunsPolicyWaitAlways(args) == TRUE

\* the guards of the two wait phases
RunsInstallWait(args) == args.rate = "interval" /\ ~args.skip_wait_sno
RunsPolicyWait(args) == args.wait_du_profile

\* faulty variant: the count is reset in every mode
DryRunResetAlways(data, dry_run) == [data EXCEPT !.sno_applied_committed = 0]

\* main(): if cliargs.dry_run: monitor_data["sno_applied_committed"] = 0
DryRunReset(data, dry_run) ==
  IF dry_run THEN [data EXCEPT !.sno_applied_committed = 0] ELSE data

\* main(): entry of the install-wait phase
WaitSnoEnter ==
  /\ pc = "wait_sno"
  /\ wait_sno_start_time' = now
  /\ IF RunsInstallWait(cliargs)
     THEN /\ monitor_data' = DryRunReset(monitor_data, cliargs.dry_run)
          /\ pc' = "sno_poll"
          /\ UNCHANGED sno_outcome
     ELSE /\ sno_outcome' = "skipped"
          /\ pc' = "wait_du"
          /\ UNCHANGED monitor_data
  /\ UNCHANGED <<cfgVars, toolVars, raceVars, apply_failed, end_time, git_failed, discVars, exit_code, loopVars, passVars, repoVars,
                 histVars, monVars, now, wait_du_profile_start_time, du_outcome>>

\* main(): one turn of the install-wait loop, sleep(30) then the two tests
SnoPoll ==
  /\ pc = "sno_poll"
  /\ now' \in SleepEnds(PollSleep)
  /\ LET outcome == PollOutcome(InstallComplete(monitor_data),
                                PhaseTimedOut(cliargs.wait_sno_max,
                                              now' - wait_sno_start_time))
     IN /\ sno_outcome' = outcome
        /\ pc' = IF outcome = "none" THEN "sno_poll" ELSE "wait_du"
  /\ UNCHANGED <<cfgVars, toolVars, raceVars, apply_failed, end_time, git_failed, discVars, exit_code, loopVars, passVars, repoVars,
                 histVars, monitor_data, monVars, wait_sno_start_time,
                 wait_du_profile_start_time, du_outcome>>

\* main(): entry of the policy-wait phase
WaitDuEnter ==
  /\ pc = "wait_du"
  /\ wait_du_profile_start_time' = now
  /\ IF RunsPolicyWait(cliargs)
     THEN /\ monitor_data' = DryRunReset(monitor_data, cliargs.dry_run)
          /\ pc' = "du_poll"
          /\ UNCHANGED du_outcome
     ELSE /\ du_outcome' = "skipped"
          /\ pc' = "end_delay"
          /\ UNCHANGED monitor_data
  /\ UNCHANGED <<cfgVars, toolVars, raceVars, apply_failed, end_time, git_failed, discVars, exit_code, loopVars, passVars, repoVars,
                 histVars, monVars, now, wait_sno_start_time, sno_outcome>>

\* main(): one turn of the policy-wait loop
DuPoll ==
  /\ pc = "du_poll"
  /\ now' \in SleepEnds(PollSleep)
  /\ LET outcome == PollOutcome(PolicyComplete(monitor_data),
                                PhaseTimedOut(cliargs.wait_du_profile_max,
                                              now' - wait_du_profile_start_time))
     IN /\ du_outcome' = outcome
        /\ pc' = IF outcome = "none" THEN "du_poll" ELSE "end_delay"
  /\ UNCHANGED <<cfgVars, toolVars, raceVars, apply_failed, end_time, git_failed, discVars, exit_code, loopVars, passVars, repoVars,
                 histVars, monitor_data, monVars, wait_sno_start_time,
                 wait_du_profile_start_time, sno_outcome>>

\* ------------------------------------------------------------ end of run

\* main(): end_time taken, then the end-of-workload delay
EndDelay ==
  /\ pc = "end_delay"
  /\ end_time' = now
  /\ IF cliargs.end_delay > 0
       THEN now' \in SleepEnds(cliargs.end_delay)
       ELSE now' = now
  /\ pc' = "stop_monitor"
  /\ UNCHANGED <<cfgVars, toolVars, raceVars, apply_failed, git_failed, discVars, exit_code, loopVars, passVars, repoVars,
                 histVars, monitor_data, monVars, waitVars>>

\* main(): monitor_thread.signal = False
StopMonitor ==
  /\ pc = "stop_monitor"
  /\ signal' = FALSE
  /\ pc' = "join"
  /\ UNCHANGED <<cfgVars, toolVars, raceVars, apply_failed, end_time, git_failed, discVars, exit_code, loopVars, passVars, repoVars,
                 histVars, monitor_data, monitor_thread, now, waitVars>>

\* faulty variant: join returns at once
JoinedAtOnce(thread) == TRUE

\* Thread.join() returns once the thread has terminated
Joined(thread) == thread = "stopped"

\* main(): monitor_thread.join()
Join ==
  /\ pc = "join"
  /\ Joined(monitor_thread)
  /\ pc' = "report"
  /\ UNCHANGED <<cfgVars, toolVars, raceVars, apply_failed, end_time, git_failed, discVars, exit_code, loopVars, passVars, repoVars,
                 histVars, monitor_data, monVars, now, waitVars>>

\* main(): generate_report(), then main returns and sys.exit(None)
Report ==
  /\ pc = "report"
  /\ pc' = "done"
  /\ exit_code' = 0
  /\ UNCHANGED <<cfgVars, toolVars, raceVars, apply_failed, end_time, git_failed, discVars, loopVars, passVars, repoVars, histVars,
                 monitor_data, monVars, now, waitVars>>

\* --------------------------------------------------------- monitor thread

\* faulty variant: every counter is counted afresh, the terminal ones too
ObservationsFromScratch(cur) ==
  IF cliargs.dry_run THEN {cur}
  ELSE
  { [cur EXCEPT !.sno_init = i, !.sno_install_failed = f,
                !.sno_install_completed = c, !.policy_init = p,
                !.policy_timedout = t, !.policy_compliant = k] :
      i \in 0..env.hosts, f \in 0..env.hosts, c \in 0..env.hosts,
      p \in 0..env.policies, t \in 0..env.policies,
      k \in 0..env.policies }

\* What one poll of the fleet can show: at most env.hosts units started, a
\* unit is failed or completed only once started, policies only start on
\* completed units; the terminal counters never go back.  A dry run polls
\* nothing.
Observations(cur) ==
  IF cliargs.dry_run THEN {cur}
  ELSE
  { [cur EXCEPT !.sno_init = i, !.sno_install_failed = f,
                !.sno_install_completed = c, !.policy_init = p,
                !.policy_timedout = t, !.policy_compliant = k] :
      i \in 0..env.hosts, f \in cur.sno_install_failed..env.hosts,
      c \in cur.sno_install_completed..env.hosts,
      p \in 0..env.policies, t \in cur.policy_timedout..env.policies,
      k \in cur.policy_compliant..env.policies }

Consistent(d) ==
  /\ d.sno_install_failed + d.sno_install_completed <= d.sno_init
  /\ d.policy_init <= d.sno_install_completed
  /\ d.policy_timedout + d.policy_compliant <= d.policy_init

\* SnoMonitor.run(): one tick writes the counters it computed
MonitorTick ==
  /\ monitor_thread = "running"
  /\ signal
  /\ monitor_data' \in {d \in Observations(monitor_data) : Consistent(d)}
  /\ UNCHANGED <<cfgVars, toolVars, raceVars, apply_failed, end_time, git_failed, discVars, pc, exit_code, loopVars, passVars,
                 repoVars, histVars, monVars, now, waitVars>>

\* SnoMonitor.run(): the stop signal is seen, a last write, the thread ends
MonitorStop ==
  /\ monitor_thread = "running"
  /\ ~signal
  /\ monitor_data' \in {d \in Observations(monitor_data) : Consistent(d)}
  /\ monitor_thread' = "stopped"
  /\ UNCHANGED <<cfgVars, toolVars, raceVars, apply_failed, end_time, git_failed, discVars, pc, exit_code, loopVars, passVars,
                 repoVars, histVars, signal, now, waitVars>>

Next ==
  \/ Validate
  \/ Discover
  \/ StartMonitor
  \/ ReleaseStep
  \/ DeployUnit
  \/ DeployFinish
  \/ ApplyUnit
  \/ ApplyDone
  \/ LoopCheck
  \/ IntervalWait
  \/ WaitSnoEnter
  \/ SnoPoll
  \/ WaitDuEnter
  \/ DuPoll
  \/ EndDelay
  \/ StopMonitor
  \/ Join
  \/ Report
  \/ MonitorTick
  \/ MonitorStop

Spec == Init /\ [][Next]_vars

\* ------------------------------------------------ the renderer on its own

\* the member lists handed to the renderer: up to MaxNames names out of
\* 0..MaxNames, in any order, repeated or not
MemberLists == UNION {[1..n -> 0..MaxNames] : n \in 0..MaxNames}

RenderInit ==
  /\ cliargs = BaseArgs
  /\ env = BaseEnv
  /\ pc = "render"
  /\ exit_code = NoIndex
  /\ sno_list = <<>>
  /\ ztp_deploy_apps = <<>>
  /\ total_intervals = 0
  /\ start_sno_index = 0
  /\ end_sno_index = 0
  /\ start_interval_time = 0
  /\ idx = 0
  /\ last_ztp_app_index = 0
  /\ ztp_app_index = NoIndex
  /\ git_files = <<>>
  /\ disk = {}
  /\ manifests = <<>>
  /\ renders = <<>>
  /\ commits = <<>>
  /\ pushes = 0
  /\ released = <<>>
  /\ step_sizes = <<>>
  /\ report_dir = FALSE
  /\ monitor_data = ZeroCounters
  /\ monitor_thread = "new"
  /\ signal = TRUE
  /\ now = 0
  /\ wait_sno_start_time = 0
  /\ wait_du_profile_start_time = 0
  /\ sno_outcome = "none"
  /\ du_outcome = "none"
  /\ end_time = 0
  /\ git_failed = FALSE
  /\ apply_failed = FALSE
  /\ fleet = ZeroCounters
  /\ pending = {}
  /\ reads = <<>>
  /\ last_rc = 0
  /\ output = <<>>
  /\ version = <<>>
  /\ healthy = 0
  /\ checks = <<>>
  /\ aci_snos = <<>>
  /\ sno_pos = 0
  /\ snos_unreachable = <<>>
  /\ snos_ver_data = <<>>
  /\ snos_duplicate_entries = <<>>
  /\ seen = {}

\* deploy_ztp_snos(): Template(kustomization_template).render(snos=...) and
\* the write of kustomization.yaml, for the application app
RenderManifest(app, snos) ==
  /\ renders' = Append(renders, Rendering(app, snos))
  /\ manifests' = (app :> kustomization_template(snos)) @@ manifests
  /\ UNCHANGED <<cfgVars, toolVars, raceVars, apply_failed, end_time, git_failed, discVars, exit_code, loopVars,
                 passVars, disk, commits, pushes, histVars, monitor_data,
                 monVars, now, waitVars>>

\* a first render of some application from some member list
RenderFirst ==
  /\ pc = "render"
  /\ \E app \in 0..1, snos \in MemberLists : RenderManifest(app, snos)
  /\ pc' = "rerender"

\* a second render, of the same or another application and list
RenderAgain ==
  /\ pc = "rerender"
  /\ \E app \in 0..1, snos \in MemberLists : RenderManifest(app, snos)
  /\ pc' = "rendered"

RenderNext ==
  \/ RenderFirst
  \/ RenderAgain

RenderSpec == RenderInit /\ [][RenderNext]_vars

\* ------------------------------- an install-wait poll against Monitor ticks
\* The poll of install-wait evaluates its condition counter by counter
\* while the Monitor thread runs; here a tick writes its counters one by
\* one, in any order, and the reads of a poll fall anywhere in between.

\* the counters the condition of install-wait reads, in evaluation order
ReadOrder ==
  <<"sno_init", "sno_applied_committed", "sno_install_failed",
    "sno_install_completed", "sno_init">>

\* the counters a tick of the Monitor writes in this phase
TickCounters == {"sno_init", "sno_install_failed", "sno_install_completed"}

\* a fleet of 1..MaxHosts hosts, some of them released, install-wait entered
PollInit ==
  /\ \E h \in 1..MaxHosts, a \in 1..MaxHosts :
        /\ a <= h
        /\ cliargs = [BaseArgs EXCEPT !.skip_wait_sno = FALSE, !.batch = a]
        /\ env = [BaseEnv EXCEPT !.snos = h, !.hosts = h]
        /\ monitor_data = [ZeroCounters EXCEPT !.sno_applied_committed = a]
        /\ fleet = [ZeroCounters EXCEPT !.sno_applied_committed = a]
        /\ released = [i \in 1..a |-> i - 1]
  /\ pc = "sno_poll"
  /\ exit_code = NoIndex
  /\ sno_list = GlobSiteconfigs(env.snos)
  /\ ztp_deploy_apps = <<>>
  /\ total_intervals = 1
  /\ start_sno_index = cliargs.batch
  /\ end_sno_index = cliargs.batch
  /\ start_interval_time = 0
  /\ idx = 0
  /\ last_ztp_app_index = 0
  /\ ztp_app_index = NoIndex
  /\ git_files = <<>>
  /\ disk = {}
  /\ manifests = <<>>
  /\ renders = <<>>
  /\ commits = <<>>
  /\ pushes = 0
  /\ step_sizes = <<cliargs.batch>>
  /\ report_dir = TRUE
  /\ monitor_thread = "running"
  /\ signal = TRUE
  /\ now = 0
  /\ wait_sno_start_time = 0
  /\ wait_du_profile_start_time = 0
  /\ sno_outcome = "none"
  /\ du_outcome = "none"
  /\ end_time = 0
  /\ git_failed = FALSE
  /\ apply_failed = FALSE
  /\ pending = {}
  /\ reads = <<>>
  /\ last_rc = 0
  /\ output = <<>>
  /\ version = <<>>
  /\ healthy = 0
  /\ checks = <<>>
  /\ aci_snos = <<>>
  /\ sno_pos = 0
  /\ snos_unreachable = <<>>
  /\ snos_ver_data = <<>>
  /\ snos_duplicate_entries = <<>>
  /\ seen = {}

raceFrame ==
  <<cfgVars, toolVars, end_time, git_failed, apply_failed, discVars, exit_code,
    loopVars, passVars, repoVars, histVars, monVars, now,
    wait_sno_start_time, wait_du_profile_start_time, du_outcome>>

\* SnoMonitor.run(): a tick queries the fleet; its counters are now due
TickBegin ==
  /\ monitor_thread = "running"
  /\ pending = {}
  /\ fleet' \in {d \in Observations(fleet) : Consistent(d)}
  /\ pending' = TickCounters
  /\ UNCHANGED <<raceFrame, pc, sno_outcome, monitor_data, reads>>

\* SnoMonitor.run(): one counter of the tick is written into monitor_data
TickWrite ==
  /\ \E c \in pending :
        /\ monitor_data' = [monitor_data EXCEPT ![c] = fleet[c]]
        /\ pending' = pending \ {c}
  /\ UNCHANGED <<raceFrame, pc, sno_outcome, fleet, reads>>

\* the "and" of the condition stops after its first half when that is false
ShortCircuit(r) == Len(r) = 2 /\ r[1] < r[2]

\* main(): the poll reads the next counter of its condition
PollRead ==
  /\ pc = "sno_poll"
  /\ Len(reads) < Len(ReadOrder)
  /\ ~ShortCircuit(reads)
  /\ reads' = Append(reads, monitor_data[ReadOrder[Len(reads) + 1]])
  /\ UNCHANGED <<raceFrame, pc, sno_outcome, monitor_data, fleet, pending>>

\* the condition of install-wait over the values read
ReadComplete(r) ==
  /\ Len(r) = Len(ReadOrder)
  /\ r[1] >= r[2]
  /\ r[3] + r[4] = r[5]

\* main(): the condition is decided; leave the loop or sleep and poll again
PollVerdict ==
  /\ pc = "sno_poll"
  /\ Len(reads) = Len(ReadOrder) \/ ShortCircuit(reads)
  /\ sno_outcome' = IF ReadComplete(reads) THEN "completed" ELSE "none"
  /\ pc' = IF ReadComplete(reads) THEN "wait_du" ELSE "sno_poll"
  /\ reads' = <<>>
  /\ UNCHANGED <<raceFrame, monitor_data, fleet, pending>>

PollNext ==
  \/ TickBegin
  \/ TickWrite
  \/ PollRead
  \/ PollVerdict

PollSpec == PollInit /\ [][PollNext]_vars

\* ===================================================================
\* Properties
\* ===================================================================

\* every file handed to git add so far in the run
AllStaged ==
  Range(git_files) \cup UNION {Range(commits[i].files) : i \in 1..Len(commits)}

\* the release loop has been left by its break
ReleaseFinished ==
  pc \in {"wait_sno", "sno_poll", "wait_du", "du_poll", "end_delay",
          "stop_monitor", "join", "report", "done"}

\* the units the apply code has gone through so far, in order
Processed ==
  IF pc = "deploy_loop"
  THEN SubSeq(released, 1, Len(released) - (Len(Window) - idx))
  ELSE released

IsUnitFile(f) == f.kind \in {"siteconfig", "resources"}

\* C1: every unit that a release pass has put into a member list sits in
\* the list of shard floor(i / snos_per_app), i its position in the sorted
\* inventory, and its siteconfig and resources files were copied into (and
\* staged for) the directory of that same shard and of no other.
C1_NameAndFilesSameShard ==
  /\ \A k \in DOMAIN ztp_deploy_apps :
       \A j \in 1..Len(ztp_deploy_apps[k].snos) :
         LET u == ztp_deploy_apps[k].snos[j] IN
         /\ u \in 0..(available_snos - 1)
         /\ sno_list[u + 1].name = u
         /\ k * cliargs.snos_per_app <= u
         /\ u < (k + 1) * cliargs.snos_per_app
         /\ Range(UnitFiles(k, u)) \subseteq AllStaged
         /\ ~cliargs.dry_run => Range(UnitFiles(k, u)) \subseteq disk
  /\ \A f \in AllStaged \cup disk :
       IsUnitFile(f) =>
         /\ f.app \in DOMAIN ztp_deploy_apps
         /\ f.name \in Range(ztp_deploy_apps[f.app].snos)

\* C1 witness: inside a pass that began in an earlier shard, a unit has
\* been put into a later shard.
C1_Witness ==
  /\ pc = "deploy_loop"
  /\ \E k \in DOMAIN ztp_deploy_apps :
       /\ AppIndexOf(start_sno_index, cliargs.snos_per_app) < k
       /\ ztp_deploy_apps[k].snos # <<>>
       /\ File(k, ztp_deploy_apps[k].snos[1], "resources") \in disk

NoDuplicates(q) == \A i, j \in 1..Len(q) : q[i] = q[j] => i = j
Increasing(q) == \A i, j \in 1..Len(q) : i < j => q[i] < q[j]

\* the members a shard must have: the processed units of that shard, in order
MembersDue(k) ==
  SelectSeq(Processed, LAMBDA u : k * cliargs.snos_per_app <= u
                                  /\ u < (k + 1) * cliargs.snos_per_app)

\* C2: once the capacity check has passed, each shard's member list (and
\* each manifest rendered from one) has at most snos_per_app names, no name
\* twice, and is exactly the units released so far that belong to the
\* shard, in index order.
C2_MemberLists ==
  /\ \A k \in DOMAIN ztp_deploy_apps :
       /\ Len(ztp_deploy_apps[k].snos) <= cliargs.snos_per_app
       /\ NoDuplicates(ztp_deploy_apps[k].snos)
       /\ Increasing(ztp_deploy_apps[k].snos)
       /\ ztp_deploy_apps[k].snos = MembersDue(k)
  /\ \A i \in 1..Len(renders) :
       /\ Len(renders[i].snos) <= cliargs.snos_per_app
       /\ NoDuplicates(renders[i].snos)

\* C2 witness: after two or more steps one shard is full and a later one
\* has members as well.
C2_Witness ==
  /\ total_intervals >= 2
  /\ cliargs.snos_per_app >= 2
  /\ \E k, m \in DOMAIN ztp_deploy_apps :
       /\ k < m
       /\ Len(ztp_deploy_apps[k].snos) = cliargs.snos_per_app
       /\ ztp_deploy_apps[m].snos # <<>>

\* ceil(a / b) for b >= 1
CeilDiv(a, b) == -((-a) \div b)

\* E of the release loop: the inventory size, or --end if that is smaller
ExpectedEnd ==
  IF cliargs.end = 0 THEN available_snos ELSE Min(cliargs.end, available_snos)

ExpectedSteps == CeilDiv(ExpectedEnd - cliargs.start, cliargs.batch)

ExpectedSizes ==
  [i \in 1..ExpectedSteps |->
     IF i < ExpectedSteps THEN cliargs.batch
     ELSE ExpectedEnd - cliargs.start - (ExpectedSteps - 1) * cliargs.batch]

\* C3: the interval scheduler makes exactly ceil((E - s) / b) release
\* steps, each of b units but the last, which takes the remainder; once
\* the loop is left the number of steps is final.
C3_StepCount ==
  /\ total_intervals > 0 =>
       /\ total_intervals <= ExpectedSteps
       /\ step_sizes = SubSeq(ExpectedSizes, 1, total_intervals)
  /\ ReleaseFinished =>
       /\ total_intervals = ExpectedSteps
       /\ step_sizes = ExpectedSizes

\* the units a whole run has to release: [start, E), in index order
UnitsDue == [i \in 1..Max(0, ExpectedEnd - cliargs.start) |-> cliargs.start + i - 1]

\* C4: the windows of a run are contiguous and disjoint.  What has been
\* released is always a prefix of [start, E) (so each unit at most once, in
\* increasing order, none below start or at/after a set end); when the loop
\* is left all of [start, E) has been released; and start_sno_index only
\* changes where the scheduler sets it up or advances it by the batch size.
C4_Windows ==
  /\ [](/\ Len(released) <= Len(UnitsDue)
        /\ released = SubSeq(UnitsDue, 1, Len(released))
        /\ ReleaseFinished => released = UnitsDue)
  /\ [][start_sno_index' # start_sno_index =>
          \/ pc = "start_monitor" /\ start_sno_index' = cliargs.start
          \/ pc = "loop_check" /\ start_sno_index' = start_sno_index + cliargs.batch]_vars

\* C4 witness: a run with a start index above 0 and an end index below the
\* inventory size has left the loop after two or more steps.
C4_Witness ==
  /\ pc = "wait_sno"
  /\ cliargs.start > 0
  /\ cliargs.end > 0
  /\ cliargs.end < available_snos
  /\ total_intervals >= 2
  /\ Len(released) = cliargs.end - cliargs.start

\* a step of the primary task that is a poll of the install-wait loop
\* (the monitor never moves the clock), and one of the policy-wait loop
IsSnoPoll == pc = "sno_poll" /\ now' # now
IsDuPoll == pc = "du_poll" /\ now' # now

TailOrder ==
  {<<"sno_poll", "wait_du">>, <<"wait_du", "du_poll">>, <<"wait_du", "end_delay">>,
   <<"du_poll", "end_delay">>, <<"end_delay", "stop_monitor">>,
   <<"stop_monitor", "join">>, <<"join", "report">>, <<"report", "done">>}

\* C6: with a budget M > 0, a poll that finds the predicate false and more
\* than M elapsed ends the phase as timed out, not as an error: the run
\* passes to the next phase, then end delay, monitor stop and report, and
\* ends with exit code 0; so a phase with M > 0 is never still waiting
\* after a poll at which more than M had elapsed.
C6_TimeoutIsSoft ==
  /\ [][/\ (IsSnoPoll /\ cliargs.wait_sno_max > 0 /\ ~InstallComplete(monitor_data)
              /\ now' - wait_sno_start_time > cliargs.wait_sno_max)
            => (sno_outcome' = "timedout" /\ pc' = "wait_du" /\ exit_code' = NoIndex)
        /\ (IsDuPoll /\ cliargs.wait_du_profile_max > 0 /\ ~PolicyComplete(monitor_data)
              /\ now' - wait_du_profile_start_time > cliargs.wait_du_profile_max)
            => (du_outcome' = "timedout" /\ pc' = "end_delay" /\ exit_code' = NoIndex)
        /\ (pc' # pc /\ pc \in {"sno_poll", "wait_du", "du_poll", "end_delay",
                                  "stop_monitor", "join", "report"})
            => (<<pc, pc'>> \in TailOrder /\ exit_code' \in {NoIndex, 0})]_vars
  /\ [](/\ (pc = "sno_poll" /\ cliargs.wait_sno_max > 0)
            => now - wait_sno_start_time <= cliargs.wait_sno_max
        /\ (pc = "du_poll" /\ cliargs.wait_du_profile_max > 0)
            => now - wait_du_profile_start_time <= cliargs.wait_du_profile_max
        /\ ("timedout" \in {sno_outcome, du_outcome})
            => (pc # "exit" /\ exit_code \in {NoIndex, 0})
        /\ (pc = "done") => (exit_code = 0 /\ ~signal /\ monitor_thread = "stopped"))

\* C6 witness: both phases timed out and the run ended with exit code 0.
C6_Witness ==
  /\ pc = "done"
  /\ exit_code = 0
  /\ sno_outcome = "timedout"
  /\ du_outcome = "timedout"

\* C7: with a budget of 0 a phase never ends as timed out, and a poll ends
\* it exactly when the completion predicate holds.
C7_ZeroIsUnbounded ==
  /\ [](/\ cliargs.wait_sno_max = 0 => sno_outcome # "timedout"
        /\ cliargs.wait_du_profile_max = 0 => du_outcome # "timedout")
  /\ [][/\ (IsSnoPoll /\ cliargs.wait_sno_max = 0)
            => (pc' # "sno_poll" <=> InstallComplete(monitor_data))
        /\ (IsDuPoll /\ cliargs.wait_du_profile_max = 0)
            => (pc' # "du_poll" <=> PolicyComplete(monitor_data))]_vars

\* C7 witness: an install-wait with budget 0 is still waiting after three
\* polls.
C7_Witness ==
  /\ pc = "sno_poll"
  /\ cliargs.wait_sno_max = 0
  /\ now - wait_sno_start_time >= 3 * PollSleep
  /\ ~InstallComplete(monitor_data)

\* C8: install-wait begins only after the release loop has ended, and
\* policy-wait only after install-wait has ended (completed, timed out or
\* skipped); a timed-out install-wait is followed by policy-wait when that
\* is requested; when it is not, the phase is passed over without a poll,
\* a sleep or a write to the counters.
C8_PhaseOrder ==
  /\ [](/\ pc = "sno_poll" =>
             /\ ~cliargs.skip_wait_sno
             /\ ReleaseDone(start_sno_index, available_snos, end_sno_index, cliargs.end)
             /\ sno_outcome = "none" /\ du_outcome = "none"
        /\ pc = "du_poll" =>
             /\ cliargs.wait_du_profile
             /\ sno_outcome \in {"completed", "timedout", "skipped"}
             /\ sno_outcome = "skipped" <=> cliargs.skip_wait_sno
        /\ ~cliargs.wait_du_profile =>
             (pc # "du_poll" /\ du_outcome \in {"none", "skipped"}))
  /\ [][/\ (pc = "release" /\ pc' # pc) => sno_outcome = "none"
        /\ (pc = "wait_du" /\ pc' # pc /\ cliargs.wait_du_profile)
              => pc' = "du_poll"
        /\ (pc = "wait_du" /\ pc' # pc /\ ~cliargs.wait_du_profile)
              => (pc' = "end_delay" /\ now' = now /\ monitor_data' = monitor_data)]_vars

\* C8 witness: policy-wait is polling after install-wait timed out.
C8_Witness ==
  /\ pc = "du_poll"
  /\ sno_outcome = "timedout"
  /\ now > wait_du_profile_start_time

\* the end-to-end scenario: 5 units, capacity 3, batch 2, interval 0, end 0,
\* ztp method without client templates, 2 cluster applications
Scenario ==
  /\ cliargs.method = "ztp"
  /\ env.snos = 5
  /\ env.apps = 2
  /\ cliargs.snos_per_app = 3
  /\ cliargs.batch = 2
  /\ cliargs.interval = 0
  /\ cliargs.start = 0
  /\ cliargs.end = 0
  /\ ~cliargs.ztp_client_templates

\* how often the manifest of shard k has been rendered so far
RenderCount(k) == Cardinality({i \in 1..Len(renders) : renders[i].app = k})

\* the renders of the scenario, in order: app and member list
ScenarioRenders ==
  << [app |-> 0, snos |-> <<0, 1>>], [app |-> 0, snos |-> <<0, 1, 2>>],
     [app |-> 1, snos |-> <<3>>], [app |-> 1, snos |-> <<3, 4>>] >>

RendersSoFar == [i \in 1..Len(renders) |-> [app |-> renders[i].app, snos |-> renders[i].snos]]

\* C9 as stated: in the scenario each of the two shard manifests is
\* rendered exactly once over the whole run.
C9_RenderedOnce ==
  (Scenario /\ ReleaseFinished) => (RenderCount(0) = 1 /\ RenderCount(1) = 1)

\* C9 as amended: in the scenario shard 0's manifest is rendered exactly
\* twice (at the end of the first batch, and in the second batch when it
\* crosses the 3-unit boundary) and shard 1's exactly twice (at the end of
\* the second batch and at the end of the third).
C9_RenderedTwice ==
  Scenario =>
    /\ Len(renders) <= Len(ScenarioRenders)
    /\ RendersSoFar = SubSeq(ScenarioRenders, 1, Len(renders))
    /\ (pc = "loop_check" /\ total_intervals = 1) => Len(renders) = 1
    /\ (pc = "deploy_loop" /\ total_intervals = 2 /\ idx = 1) => Len(renders) = 1
    /\ (pc = "deploy_loop" /\ total_intervals = 2 /\ idx = 2) => Len(renders) = 2
    /\ (pc = "loop_check" /\ total_intervals = 2) => Len(renders) = 3
    /\ ReleaseFinished => (RenderCount(0) = 2 /\ RenderCount(1) = 2)

\* C9 witness: the scenario has run to its end with four renders.
C9_Witness ==
  /\ Scenario
  /\ pc = "done"
  /\ Len(renders) = 4

\* every file that some commit of the run contains
CommittedFiles == UNION {Range(commits[i].files) : i \in 1..Len(commits)}

\* C10: in the scenario, with git working, exactly 2 shards receive members, the steps have
\* sizes 2, 2, 1 and the committed files are 12: the 2 artifact files of
\* each of the 5 units and the 2 shard manifests.
C10_ScenarioTotals ==
  (Scenario /\ ReleaseFinished /\ ~git_failed) =>
    /\ Cardinality({k \in DOMAIN ztp_deploy_apps : ztp_deploy_apps[k].snos # <<>>}) = 2
    /\ step_sizes = <<2, 2, 1>>
    /\ Cardinality(CommittedFiles) = 12
    /\ Cardinality({f \in CommittedFiles : IsUnitFile(f)}) = 5 * 2
    /\ {f \in CommittedFiles : ~IsUnitFile(f)}
         = {File(0, NoName, "kustomization"), File(1, NoName, "kustomization")}

\* C10 witness: the scenario has made its three commits and left the loop.
C10_Witness ==
  /\ Scenario
  /\ pc = "wait_sno"
  /\ Len(commits) = 3
  /\ pushes = 3
  /\ ~git_failed

\* ------------------------------------------------- counters and their writers

\* a step of the primary task: its position, its loop index or its clock moves
PrimaryStep == pc' # pc \/ idx' # idx \/ now' # now

\* the counters other than the applied/committed count
MonitorCounters == DOMAIN ZeroCounters \ {"sno_applied_committed"}

WaitPcs == {"wait_sno", "sno_poll", "wait_du", "du_poll"}

\* the step that enters the polling loop of a wait phase that runs
EntersPhase ==
  \/ (pc = "wait_sno" /\ pc' = "sno_poll")
  \/ (pc = "wait_du" /\ pc' = "du_poll")

AfterEndDelay == {"stop_monitor", "join", "report", "done"}

\* C13: on a normally completing run the last phase ends, the end delay
\* elapses, the stop signal is given, the primary task waits for the Monitor
\* thread to terminate and only then generates the report; no counter
\* changes once the report is being generated.
C13_EndOrder ==
  /\ [](pc \in AfterEndDelay =>
          /\ sno_outcome # "none" /\ du_outcome # "none"
          /\ now >= end_time + cliargs.end_delay)
  /\ [](~signal => pc \in {"join", "report", "done"})
  /\ [](pc \in {"report", "done"} => ~signal /\ monitor_thread = "stopped")
  /\ [][/\ (pc' = "stop_monitor" /\ pc' # pc) => pc = "end_delay"
        /\ (pc' = "join" /\ pc' # pc) => (pc = "stop_monitor" /\ ~signal')
        /\ (pc' = "report" /\ pc' # pc) => pc = "join"
        /\ (pc' = "done" /\ pc' # pc) => pc = "report"
        /\ pc \in {"report", "done"} => monitor_data' = monitor_data]_vars

\* C13 witness: a run with an end delay of 20 has produced its report after
\* the Monitor thread ended.
C13_Witness ==
  /\ pc = "done"
  /\ exit_code = 0
  /\ cliargs.end_delay = 20
  /\ now >= end_time + 20
  /\ monitor_thread = "stopped"

\* C14: whenever the process has ended after the Monitor thread was started,
\* on a fatal exit in the release phase as well, the stop signal was given
\* before the primary task left.
C14_StopBeforeExit ==
  (pc \in {"exit", "done"} /\ monitor_thread # "new") => ~signal

\* ----------------------------------------------------------------- pre-flight

\* the three pre-flight failures, read off the run's inventory: no unit, a
\* unit without its companion file, shards * capacity below the unit count
NoUnits == env.snos = 0
CompanionMissing == env.missing # NoIndex /\ env.missing < env.snos
TooFewShards ==
  cliargs.method = "ztp" /\ env.apps * cliargs.snos_per_app < env.snos
PreflightFails == NoUnits \/ CompanionMissing \/ TooFewShards

\* nothing has been copied, rendered, committed, pushed or applied, the
\* results directory does not exist and the Monitor thread was not started
NothingDone ==
  /\ disk = {} /\ manifests = <<>> /\ renders = <<>>
  /\ commits = <<>> /\ pushes = 0 /\ released = <<>>
  /\ total_intervals = 0
  /\ ~report_dir
  /\ monitor_thread = "new"
  /\ monitor_data = ZeroCounters

\* C15: a run whose arguments are valid and whose inventory has one of the
\* pre-flight failures never gets past discovery: it ends with exit code 1
\* and nothing was done before.
C15_PreflightFailure ==
  (~ArgsRejected(cliargs) /\ PreflightFails) =>
    /\ pc \in {"validate", "discover", "exit"}
    /\ pc = "exit" => exit_code = 1
    /\ NothingDone

\* C15 witness: a run with more units than its shards hold has ended.
C15_Witness ==
  /\ TooFewShards /\ ~NoUnits /\ ~CompanionMissing
  /\ ~ArgsRejected(cliargs)
  /\ pc = "exit"
  /\ exit_code = 1

\* the rejections the specification lists for configuration validation
ListedRejection ==
  \/ cliargs.start < 0
  \/ cliargs.end < 0
  \/ (cliargs.end > 0 /\ cliargs.start >= cliargs.end)
  \/ cliargs.monitor_interval < 10
  \/ cliargs.batch < 1
  \/ cliargs.interval < 0

\* C16: validation ends the run with exit code 1 exactly for the listed
\* conditions, and every other configuration goes on to discovery; a
\* rejected run has discovered nothing and released nothing.
C16_Validation ==
  /\ [](ListedRejection =>
          /\ pc \in {"validate", "exit"}
          /\ pc = "exit" => exit_code = 1
          /\ sno_list = <<>> /\ ztp_deploy_apps = <<>>
          /\ NothingDone)
  /\ [][(pc = "validate" /\ pc' # pc) =>
          IF ListedRejection
          THEN pc' = "exit" /\ exit_code' = 1
          ELSE pc' = "discover" /\ exit_code' = exit_code]_vars

\* C16 witness: a run with --start 2 --end 1 has been turned down.
C16_Witness ==
  /\ cliargs.start = 2
  /\ cliargs.end = 1
  /\ pc = "exit"
  /\ exit_code = 1
  /\ sno_list = <<>>

\* ------------------------------------------------------- version control

\* C17: a git command that returns non-zero during a release step ends the
\* run at that step with exit code 1, and no later batch is released.
C17_GitFailureFatal ==
  git_failed => (pc = "exit" /\ exit_code = 1)

\* -------------------------------------------------------- shard manifests

\* the shards that gained a member in the pass that has just returned
Gained ==
  {AppIndexOf(start_sno_index + i, cliargs.snos_per_app) :
     i \in 0..(Len(Window) - 1)}

\* the unit names a written manifest lists, generators and resources
Listed(text) ==
  [generators |-> [i \in 1..Len(text.generators) |-> text.generators[i].name],
   resources  |-> [i \in 1..Len(text.resources) |-> text.resources[i].name]]

\* C18: when a pass of deploy_ztp_snos that is not a dry run returns, the
\* manifest last written for every shard that gained a member in the pass
\* lists exactly the current members of the shard, in assignment order.
C18_ManifestsCurrent ==
  (pc = "loop_check" /\ cliargs.method = "ztp" /\ ~cliargs.dry_run) =>
    \A k \in Gained :
      /\ k \in DOMAIN manifests
      /\ Listed(manifests[k]).generators = ztp_deploy_apps[k].snos
      /\ Listed(manifests[k]).resources = ztp_deploy_apps[k].snos
      /\ ztp_deploy_apps[k].snos = MembersDue(k)

\* C18 witness: a final batch smaller than the batch size has crossed into
\* a new shard and ended in the middle of it.
C18_Witness ==
  /\ pc = "loop_check"
  /\ cliargs.method = "ztp"
  /\ ~cliargs.dry_run
  /\ Len(Window) < cliargs.batch
  /\ Cardinality(Gained) = 2
  /\ Len(ztp_deploy_apps[ztp_app_index].snos) < cliargs.snos_per_app
  /\ ztp_app_index \in DOMAIN manifests

\* p is a prefix of q
IsPrefix(p, q) == Len(p) <= Len(q) /\ SubSeq(q, 1, Len(p)) = p

\* C19: within one run, of two manifests rendered for the same shard the
\* member list of the earlier one is a prefix of the member list of the
\* later one: the membership of a shard only grows.
C19_MembershipGrows ==
  \A i, j \in 1..Len(renders) :
    (i < j /\ renders[i].app = renders[j].app) =>
      /\ IsPrefix(Listed(renders[i].text).generators,
                  Listed(renders[j].text).generators)
      /\ IsPrefix(Listed(renders[i].text).resources,
                  Listed(renders[j].text).resources)

\* C19 witness: a shard's manifest was written a second time with more
\* members than the first time.
C19_Witness ==
  /\ ~cliargs.dry_run
  /\ \E i, j \in 1..Len(renders) :
       /\ i < j
       /\ renders[i].app = renders[j].app
       /\ Len(renders[i].snos) = 1
       /\ Len(renders[j].snos) = 3
       /\ renders[j].app \in DOMAIN manifests

\* ------------------------------------------------------------ the interval

\* C20: a batch that is not the first is never released before the start of
\* the previous step plus the interval; when the interval is 0 or the
\* previous step has already taken the interval, the wait lets no time pass.
C20_IntervalFromStepStart ==
  [][/\ (pc = "release" /\ pc' # pc /\ total_intervals >= 1) =>
          /\ now >= start_interval_time + cliargs.interval
          /\ start_interval_time' = now
     /\ (pc = "interval_wait" /\ pc' # pc) =>
          /\ pc' = "release"
          /\ IF cliargs.interval = 0
                \/ now - start_interval_time >= cliargs.interval
             THEN now' = now
             ELSE now' >= start_interval_time + cliargs.interval]_vars

\* C20 witness: with an interval of 10 and steps that take 5, the second
\* batch is released 10 after the first step began at 0.
C20_Witness ==
  /\ cliargs.interval = 10
  /\ env.step_time = 5
  /\ cliargs.start_delay = 0
  /\ total_intervals = 2
  /\ pc = "deploy_loop"
  /\ start_interval_time = 10

\* ------------------------------------------------------ terminal counters

\* the counters of terminal outcomes
TerminalCounters ==
  {"sno_install_failed", "sno_install_completed",
   "policy_timedout", "policy_compliant"}

\* C21: within one run no terminal counter of the shared structure ever
\* decreases, neither from one Monitor tick to the next nor by a step of
\* the primary task in between.
C21_TerminalMonotonic ==
  [][\A c \in TerminalCounters : monitor_data'[c] >= monitor_data[c]]_vars

\* C21 witness: the Monitor has reported one unit failed and one completed,
\* after ticks that showed less.
C21_Witness ==
  /\ monitor_thread = "running"
  /\ monitor_data.sno_init = 2
  /\ monitor_data.sno_install_failed = 1
  /\ monitor_data.sno_install_completed = 1
  /\ pc = "sno_poll"

\* ------------------------------------------------------------- rendering

NextApp == AppIndexOf(start_sno_index + idx, cliargs.snos_per_app)

\* the iteration of a pass in which the batch rolls into a later application
RollStep ==
  /\ pc = "deploy_loop"
  /\ idx' = idx + 1
  /\ NextApp > last_ztp_app_index

\* the application in which the pass began
FirstApp == AppIndexOf(start_sno_index, cliargs.snos_per_app)

\* C23: when a pass moves from application K to a later one, the later one
\* is K + 1 and has neither a member nor a file yet, K's manifest is
\* rendered with all of K's members released so far (and written, unless
\* in a dry run), and it is staged before every file of the later
\* application; every application a pass has left behind has its manifest
\* staged, also when the batch spans more than two applications.
C23_RenderBeforeMovingOn ==
  /\ [][RollStep =>
          LET K == last_ztp_app_index
              J == NextApp
              manifest == File(K, NoName, "kustomization")
          IN
          /\ J = K + 1
          /\ ztp_deploy_apps[J].snos = <<>>
          /\ \A f \in Range(git_files) \cup disk : f.app # J
          /\ renders' = Append(renders,
                               [app |-> K, snos |-> MembersDue(K),
                                text |-> kustomization_template(MembersDue(K))])
          /\ ~cliargs.dry_run =>
               Listed(manifests'[K]).generators = ztp_deploy_apps[K].snos
          /\ \E p \in 1..Len(git_files') :
               /\ git_files'[p] = manifest
               /\ \A q \in 1..Len(git_files') :
                    git_files'[q].app = J => p < q
          /\ ztp_deploy_apps'[J].snos = <<start_sno_index + idx>>]_vars
  /\ [](pc = "deploy_loop" =>
          \A k \in FirstApp..(last_ztp_app_index - 1) :
            File(k, NoName, "kustomization") \in Range(git_files))

\* C23 witness: a batch of three units at one unit per application has
\* left two applications behind, each with its manifest staged.
C23_Witness ==
  /\ pc = "deploy_loop"
  /\ ~cliargs.dry_run
  /\ cliargs.snos_per_app = 1
  /\ idx = 3
  /\ last_ztp_app_index = FirstApp + 2
  /\ File(FirstApp, NoName, "kustomization") \in Range(git_files)
  /\ File(FirstApp + 1, NoName, "kustomization") \in Range(git_files)

\* ------------------------------------------------- one commit per step

\* C24: every release step of the ztp method stages all the files it wrote
\* or copied, commits once and pushes once, the commit names the index
\* range of the units the step released, and the run has as many commits
\* as release steps.
C24_OneCommitPerStep ==
  cliargs.method = "ztp" =>
    /\ pushes = Len(commits)
    /\ Len(commits) =
         IF pc = "deploy_loop" THEN total_intervals - 1 ELSE total_intervals
    /\ pc = "loop_check" =>
         LET commit == commits[Len(commits)]
         IN /\ commit.files = git_files
            /\ \A f \in disk :
                 f.name \in Range(released)
                   /\ f.name >= start_sno_index => f \in Range(commit.files)
            /\ \A k \in Gained :
                 File(k, NoName, "kustomization") \in Range(commit.files)
            /\ commit.start = start_sno_index
            /\ commit.end = start_sno_index + Len(Window)

\* --------------------------------------------------- a failed oc apply

\* C25: in the manifests method a non-zero result of the apply of a unit
\* ends the run there with exit code 1: the rest of the batch and the later
\* batches are not applied, what was applied stays, and neither a wait
\* phase nor the report follows.
C25_ApplyFailureFatal ==
  /\ [](apply_failed =>
          /\ cliargs.method = "manifests"
          /\ pc = "exit" /\ exit_code = 1
          /\ sno_outcome = "none" /\ du_outcome = "none")
  /\ [][/\ (~apply_failed /\ apply_failed') =>
             /\ pc = "apply_loop"
             /\ released' = Append(released, sno_name_of(Window[idx + 1]))
        /\ apply_failed =>
             /\ pc' = pc /\ exit_code' = exit_code
             /\ released' = released /\ idx' = idx
             /\ total_intervals' = total_intervals
        /\ IsPrefix(released, released')]_vars

\* C25 witness: the apply of the first unit of a batch of two has failed
\* and the run has ended with the second unit not applied.
C25_Witness ==
  /\ apply_failed
  /\ pc = "exit"
  /\ Len(Window) = 2
  /\ idx = 1
  /\ released = <<0>>

\* ------------------------------------------------- polls and torn reads

\* the units the fleet shows in a terminal outcome
FleetTerminal == fleet.sno_install_failed + fleet.sno_install_completed

\* C26: with the Monitor writing its counters one by one and the terminal
\* counters never decreasing, a poll whose reads fall between the writes
\* never declares install-wait complete while fewer units than were
\* released have reached a terminal outcome.
C26_NoEarlyCompletion ==
  sno_outcome = "completed" =>
    FleetTerminal >= monitor_data.sno_applied_committed

\* ------------------------------------------------------------- dry run

RECURSIVE PassFiles(_)
\* the files a pass hands to staging while it handles the first i units of
\* its window, worked out from the positions of the units alone
PassFiles(i) ==
  IF i = 0 THEN <<>>
  ELSE LET u    == start_sno_index + i - 1
           app  == u \div cliargs.snos_per_app
           prev == IF i = 1 THEN start_sno_index \div cliargs.snos_per_app
                   ELSE (u - 1) \div cliargs.snos_per_app
           name == sno_name_of(sno_list[u + 1])
       IN PassFiles(i - 1)
            \o (IF app > prev
                THEN <<File(prev, NoName, "kustomization")>> ELSE <<>>)
            \o <<File(app, name, "siteconfig"), File(app, name, "resources")>>
            \o (IF cliargs.ztp_client_templates
                THEN ClientTemplateFiles(app, name) ELSE <<>>)

\* the applications a finished pass has rendered, in order
PassApps == FirstApp..AppIndexOf(start_sno_index + Len(Window) - 1,
                                 cliargs.snos_per_app)

\* C27: a dry run writes no manifest, copies no file and creates no
\* directory, while the member lists, the manifests rendered and the files
\* handed to staging are those that the positions of the units determine,
\* in a dry run as in any other run.
C27_DryRunFrame ==
  cliargs.method = "ztp" =>
    /\ cliargs.dry_run => (disk = {} /\ manifests = <<>>)
    /\ pc = "deploy_loop" => git_files = PassFiles(idx)
    /\ pc = "loop_check" =>
         /\ git_files = Append(PassFiles(Len(Window)),
                               File(ztp_app_index, NoName, "kustomization"))
         /\ Len(renders) >= Cardinality(PassApps)
         /\ \A k \in PassApps :
              LET r == renders[Len(renders) - (ztp_app_index - k)]
              IN /\ r.app = k
                 /\ r.snos = MembersDue(k)
                 /\ Listed(r.text).generators = MembersDue(k)
         /\ \A k \in DOMAIN ztp_deploy_apps :
              ztp_deploy_apps[k].snos = MembersDue(k)
         /\ ~cliargs.dry_run =>
              /\ Range(PassFiles(Len(Window))) \subseteq
                   disk \cup {File(k, NoName, "kustomization") : k \in PassApps}
              /\ PassApps \subseteq DOMAIN manifests

\* C27 witness: a dry run with client templates has finished a pass: the
\* unit's files and its extra-manifests are staged and nothing is on disk.
C27_Witness ==
  /\ cliargs.dry_run
  /\ cliargs.ztp_client_templates
  /\ pc = "loop_check"
  /\ Len(git_files) = 5
  /\ disk = {}
  /\ manifests = <<>>
  /\ Len(renders) = 1

\* ------------------------------------------------------- polls of a phase

\* the outcome the claim gives a poll that ends at time t
ClaimedOutcome(complete, max, start, t) ==
  IF complete THEN "completed"
  ELSE IF max > 0 /\ t - start > max THEN "timedout"
  ELSE "none"

\* C28: a wait phase tests completion and timeout at every poll and only
\* there; a poll comes after a full sleep of 30 seconds, the first one
\* too; a poll at which both tests hold ends the phase as completed.
C28_PollChecks ==
  /\ [][/\ (pc = "sno_poll" /\ PrimaryStep) =>
             /\ now' >= now + PollSleep
             /\ sno_outcome' = ClaimedOutcome(InstallComplete(monitor_data),
                                 cliargs.wait_sno_max, wait_sno_start_time, now')
             /\ pc' = IF sno_outcome' = "none" THEN "sno_poll" ELSE "wait_du"
        /\ (pc = "du_poll" /\ PrimaryStep) =>
             /\ now' >= now + PollSleep
             /\ du_outcome' = ClaimedOutcome(PolicyComplete(monitor_data),
                                cliargs.wait_du_profile_max,
                                wait_du_profile_start_time, now')
             /\ pc' = IF du_outcome' = "none" THEN "du_poll" ELSE "end_delay"
        /\ sno_outcome' # sno_outcome =>
             \/ (pc = "sno_poll" /\ now' >= now + PollSleep)
             \/ (pc = "wait_sno" /\ sno_outcome' = "skipped")
        /\ du_outcome' # du_outcome =>
             \/ (pc = "du_poll" /\ now' >= now + PollSleep)
             \/ (pc = "wait_du" /\ du_outcome' = "skipped")]_vars
  /\ [](sno_outcome \in {"completed", "timedout"} =>
          now >= wait_sno_start_time + PollSleep)
  /\ [](du_outcome \in {"completed", "timedout"} =>
          now >= wait_du_profile_start_time + PollSleep)

\* C28 witness: the first poll of install-wait woke up one second late,
\* past a budget of 30 seconds, found all units done and ended the phase
\* as completed.
C28_Witness ==
  /\ pc = "wait_du"
  /\ cliargs.wait_sno_max = PollSleep
  /\ now = wait_sno_start_time + PollSleep + 1
  /\ InstallComplete(monitor_data)
  /\ monitor_data.sno_applied_committed > 0
  /\ sno_outcome = "completed"

\* ------------------------------------------------- windows and app indexes

\* C29: every release step of a run that passed validation and discovery
\* hands a non-empty window of existing units to the apply code, so that
\* the render at the end of a pass has an application to render.
C29_NonEmptyWindow ==
  /\ pc \in {"deploy_loop", "apply_loop"} =>
       (start_sno_index < available_snos /\ Len(Window) > 0)
  /\ (pc = "deploy_loop" /\ idx = Len(Window)) => ztp_app_index # NoIndex

\* the indexes of the applications discovered
AppIndexes == 0..(available_ztp_apps - 1)

\* C30: once the capacity check has passed, every application index a pass
\* uses, for the unit it is about to handle, for the units it has handled,
\* for a rendered manifest and for a staged or copied file, is the index
\* of a discovered application; no lookup of an application fails.
C30_AppIndexInRange ==
  /\ []((cliargs.method = "ztp" /\ report_dir) =>
          /\ available_ztp_apps * cliargs.snos_per_app >= available_snos
          /\ DOMAIN ztp_deploy_apps = AppIndexes
          /\ \A i \in 1..Len(renders) : renders[i].app \in AppIndexes
          /\ \A f \in Range(git_files) \cup disk : f.app \in AppIndexes
          /\ DOMAIN manifests \subseteq AppIndexes
          /\ (pc = "deploy_loop" /\ idx < Len(Window)) =>
               (NextApp \in AppIndexes /\ last_ztp_app_index \in AppIndexes)
          /\ (pc \in {"deploy_loop", "loop_check"} /\ idx > 0) =>
               ztp_app_index \in AppIndexes)
  /\ [][(pc = "deploy_loop" /\ idx < Len(Window)) => pc' # "exit"]_vars

\* C30 witness: a pass has filled the last of three applications to its
\* capacity, with exactly as many units as the applications hold.
C30_Witness ==
  /\ cliargs.method = "ztp"
  /\ pc = "loop_check"
  /\ available_ztp_apps = 3
  /\ available_ztp_apps * cliargs.snos_per_app = available_snos
  /\ ztp_app_index = 2
  /\ Len(ztp_deploy_apps[2].snos) = cliargs.snos_per_app

\* ------------------------------------------------------------ termination

\* the steps of main(), without those of the monitor thread
PrimaryNext ==
  \/ Validate
  \/ Discover
  \/ StartMonitor
  \/ ReleaseStep
  \/ DeployUnit
  \/ DeployFinish
  \/ ApplyUnit
  \/ ApplyDone
  \/ LoopCheck
  \/ IntervalWait
  \/ WaitSnoEnter
  \/ SnoPoll
  \/ WaitDuEnter
  \/ DuPoll
  \/ EndDelay
  \/ StopMonitor
  \/ Join
  \/ Report

\* The whole program with its scheduling: main() keeps taking its next step
\* (time advances, commands and sleeps return), and the monitor thread, once
\* told to stop, sees the signal and ends.
LiveSpec == Init /\ [][Next]_vars /\ WF_vars(PrimaryNext) /\ WF_vars(MonitorStop)

\* every wait phase that runs has a positive timeout
BudgetsPositive ==
  /\ RunsInstallWait(cliargs) => cliargs.wait_sno_max > 0
  /\ RunsPolicyWait(cliargs) => cliargs.wait_du_profile_max > 0

\* validation and discovery passed, the run is about to start its monitor
PreflightPassed == pc = "start_monitor" /\ BudgetsPositive

\* the run came to its end: report generated after the monitor was stopped
Completed ==
  pc = "done" /\ exit_code = 0 /\ ~signal /\ monitor_thread = "stopped"

\* C31: every run that passed validation and discovery with positive budgets
\* for the wait phases it runs, and whose apply commands all succeed,
\* eventually completes: the release loop ends, each wait phase ends, the
\* monitor is stopped and the report is generated.
C31_RunCompletes == PreflightPassed ~> (Completed \/ apply_failed)

\* ------------------------------------------------ the applied/committed count

RECURSIVE SumOf(_)
SumOf(q) == IF q = <<>> THEN 0 ELSE Head(q) + SumOf(Tail(q))

\* the primary task stands between two release steps or after the loop
StepsOver ==
  pc \in {"loop_check", "interval_wait", "wait_sno", "sno_poll", "wait_du",
          "du_poll", "end_delay", "stop_monitor", "join", "report", "done"}

\* a dry run has entered a wait phase, which set the count back to 0
ResetDone ==
  /\ cliargs.dry_run
  /\ \/ RunsInstallWait(cliargs) /\
          pc \in {"sno_poll", "wait_du", "du_poll", "end_delay",
                  "stop_monitor", "join", "report", "done"}
     \/ RunsPolicyWait(cliargs) /\
          pc \in {"du_poll", "end_delay", "stop_monitor", "join", "report",
                  "done"}

deployVars ==
  <<env, discVars, loopVars, passVars, repoVars, histVars, monitor_data,
    monVars, now, waitVars, end_time, git_failed, apply_failed, raceVars>>

\* the check groups, in the order main() runs them
HealthGroups ==
  <<"clusterversion", "clusteroperators", "nodes", "machineconfigpools",
    "etcd">>

\* the --skip-... flag of a group
Skipped(a, g) ==
  CASE g = "clusterversion" -> a.skip_clusterversion
    [] g = "clusteroperators" -> a.skip_clusteroperator
    [] g = "nodes" -> a.skip_node
    [] g = "machineconfigpools" -> a.skip_machineconfigpool
    [] g = "etcd" -> a.skip_etcd_election

\* the conditions a group reads from each of its objects, in the order it
\* tests them; want = TRUE: healthy only when the status is "True",
\* want = FALSE: unhealthy only when the status is "True"
Conditions(g) ==
  CASE g = "clusterversion" ->
         <<[type |-> "Available", want |-> TRUE],
           [type |-> "Failing", want |-> FALSE],
           [type |-> "Progressing", want |-> FALSE]>>
    [] g = "clusteroperators" ->
         <<[type |-> "Available", want |-> TRUE],
           [type |-> "Degraded", want |-> FALSE],
           [type |-> "Progressing", want |-> FALSE]>>
    [] g = "nodes" ->
         <<[type |-> "Ready", want |-> TRUE],
           [type |-> "MemoryPressure", want |-> FALSE],
           [type |-> "DiskPressure", want |-> FALSE],
           [type |-> "PIDPressure", want |-> FALSE]>>
    [] g = "machineconfigpools" ->
         <<[type |-> "Updated", want |-> TRUE],
           [type |-> "Updating", want |-> FALSE],
           [type |-> "NodeDegraded", want |-> FALSE],
           [type |-> "Degraded", want |-> FALSE]>>
    [] g = "etcd" ->
         <<[type |-> "leader_changes", want |-> FALSE]>>

\* status of a condition; for etcd the increase of the leader changes
Status(g) == IF g = "etcd" THEN {0, 1} ELSE {"True", "False"}

\* one object of a group: the status of each of its conditions
Items(g) == [1..Len(Conditions(g)) -> Status(g)]

\* what the command of a group can return: the one clusterversion object,
\* or a list of up to MaxItems objects
Outputs(g) ==
  IF g = "clusterversion" THEN {<<it>> : it \in Items(g)}
  ELSE UNION {[1..n -> Items(g)] : n \in 0..MaxItems}

\* the test made on one condition
ConditionFails(g, k, status) ==
  IF g = "etcd" THEN status > 0
  ELSE IF Conditions(g)[k].want THEN status # "True" ELSE status = "True"

\* the number of tests a group makes on its output
Total(g, items) == Len(items) * Len(Conditions(g))

\* the n-th test of a group, object by object and condition by condition
FailsAt(g, items, n) ==
  LET i == ((n - 1) \div Len(Conditions(g))) + 1
      k == ((n - 1) % Len(Conditions(g))) + 1
  IN ConditionFails(g, k, items[i][k])

\* check_...(): the loop over the objects and their conditions from test
\* n on; a failing test clears success and, without force, is sys.exit(1)
RECURSIVE Walk(_, _, _, _, _)
Walk(g, items, force, n, success) ==
  IF n > Total(g, items)
  THEN [evaluated |-> n - 1, success |-> success, exited |-> FALSE]
  ELSE IF FailsAt(g, items, n)
       THEN IF force THEN Walk(g, items, force, n + 1, FALSE)
            ELSE [evaluated |-> n, success |-> FALSE, exited |-> TRUE]
       ELSE Walk(g, items, force, n + 1, success)

\* a group that has not been reached
PendingCheck ==
  [state |-> "pending", evaluated |-> 0, total |-> 0, success |-> TRUE]

\* main(): the parsed options, any combination of --force and --skip-...
HealthArgs ==
  [force : BOOLEAN, skip_clusterversion : BOOLEAN,
   skip_clusteroperator : BOOLEAN, skip_node : BOOLEAN,
   skip_machineconfigpool : BOOLEAN, skip_etcd_election : BOOLEAN]

\* the versions get_version can report: token in a secret, token created
Versions == {[major |-> 4, minor |-> 10], [major |-> 4, minor |-> 11]}

HealthInit ==
  /\ cliargs \in HealthArgs
  /\ env = BaseEnv
  /\ pc = "get_version"
  /\ exit_code = NoIndex
  /\ sno_list = <<>>
  /\ ztp_deploy_apps = <<>>
  /\ total_intervals = 0
  /\ start_sno_index = 0
  /\ end_sno_index = 0
  /\ start_interval_time = 0
  /\ idx = 0
  /\ last_ztp_app_index = 0
  /\ ztp_app_index = NoIndex
  /\ git_files = <<>>
  /\ disk = {}
  /\ manifests = <<>>
  /\ renders = <<>>
  /\ commits = <<>>
  /\ pushes = 0
  /\ released = <<>>
  /\ step_sizes = <<>>
  /\ report_dir = FALSE
  /\ monitor_data = ZeroCounters
  /\ monitor_thread = "new"
  /\ signal = TRUE
  /\ now = 0
  /\ wait_sno_start_time = 0
  /\ wait_du_profile_start_time = 0
  /\ sno_outcome = "none"
  /\ du_outcome = "none"
  /\ end_time = 0
  /\ git_failed = FALSE
  /\ apply_failed = FALSE
  /\ fleet = ZeroCounters
  /\ pending = {}
  /\ reads = <<>>
  /\ last_rc = 0
  /\ output = <<>>
  /\ version = <<>>
  /\ healthy = 0
  /\ checks = [g \in Range(HealthGroups) |-> PendingCheck]
  /\ aci_snos = <<>>
  /\ sno_pos = 0
  /\ snos_unreachable = <<>>
  /\ snos_ver_data = <<>>
  /\ snos_duplicate_entries = <<>>
  /\ seen = {}

\* get_version(): oc version; a non-zero exit code is sys.exit(1)
get_version ==
  /\ pc = "get_version"
  /\ \E r \in {0, 1} :
        /\ last_rc' = r
        /\ IF r # 0
           THEN Exit(1) /\ UNCHANGED version
           ELSE /\ version' \in Versions
                /\ pc' = "clusterversion"
                /\ UNCHANGED exit_code
  /\ UNCHANGED <<cliargs, deployVars, output, healthy, checks, analyzeVars>>

\* main() and check_...(): one check group.  Skipped, or: the command of the
\* group (sys.exit(1) when its exit code is not 0, whatever force says), the
\* walk over its output, and healthy += 1 when the function returns False;
\* the output is a local of the function, gone when it returns
RunCheck(g, next, outputs) ==
  /\ pc = g
  /\ IF Skipped(cliargs, g)
     THEN /\ checks' = [checks EXCEPT ![g].state = "skipped"]
          /\ pc' = next
          /\ UNCHANGED <<last_rc, output, healthy, exit_code>>
     ELSE \E r \in {0, 1} :
            /\ last_rc' = r
            /\ IF r # 0
               THEN /\ Exit(1)
                    /\ checks' = [checks EXCEPT ![g].state = "no_data"]
                    /\ UNCHANGED <<output, healthy>>
               ELSE \E items \in outputs :
                      LET w == Walk(g, items, cliargs.force, 1, TRUE)
                      IN /\ output' = IF w.exited THEN items ELSE <<>>
                         /\ checks' =
                              [checks EXCEPT ![g] =
                                 [state |-> IF w.exited THEN "exited" ELSE "done",
                                  evaluated |-> w.evaluated,
                                  total |-> Total(g, items),
                                  success |-> w.success]]
                         /\ IF w.exited
                            THEN Exit(1) /\ UNCHANGED healthy
                            ELSE /\ healthy' = healthy + (IF w.success THEN 0 ELSE 1)
                                 /\ pc' = next
                                 /\ UNCHANGED exit_code
  /\ UNCHANGED <<cliargs, deployVars, version, analyzeVars>>

check_clusterversion ==
  RunCheck("clusterversion", "clusteroperators", Outputs("clusterversion"))

check_clusteroperators ==
  RunCheck("clusteroperators", "nodes", Outputs("clusteroperators"))

check_nodes == RunCheck("nodes", "machineconfigpools", Outputs("nodes"))

check_machineconfigpools ==
  RunCheck("machineconfigpools", "etcd", Outputs("machineconfigpools"))

\* check_etcd_leader_elections(): the oc commands that come before the
\* query, by version: the route, then the token created (4.11 and later) or
\* read from the service account's secret (4.10 and earlier)
EtcdCommands(v) ==
  IF v.major = 4 /\ v.minor > 10
  THEN <<"route", "create_token">>
  ELSE <<"route", "serviceaccount", "secret">>

\* check_etcd_leader_elections(): the commands in turn, sys.exit(1) at the
\* first that returns non-zero and when the route, the token name or the
\* token is not in what they return; then the walk over the query's results
check_etcd_leader_elections ==
  /\ pc = "etcd"
  /\ IF Skipped(cliargs, "etcd")
     THEN /\ checks' = [checks EXCEPT !["etcd"].state = "skipped"]
          /\ pc' = "return"
          /\ UNCHANGED <<last_rc, output, healthy, exit_code>>
     ELSE \E passed \in 0..Len(EtcdCommands(version)), found \in BOOLEAN :
            /\ last_rc' = IF passed < Len(EtcdCommands(version)) THEN 1 ELSE 0
            /\ IF last_rc' # 0 \/ ~found
               THEN /\ Exit(1)
                    /\ checks' = [checks EXCEPT !["etcd"].state = "no_data"]
                    /\ UNCHANGED <<output, healthy>>
               ELSE \E items \in Outputs("etcd") :
                      LET w == Walk("etcd", items, cliargs.force, 1, TRUE)
                      IN /\ output' = IF w.exited THEN items ELSE <<>>
                         /\ checks' =
                              [checks EXCEPT !["etcd"] =
                                 [state |-> IF w.exited THEN "exited" ELSE "done",
                                  evaluated |-> w.evaluated,
                                  total |-> Total("etcd", items),
                                  success |-> w.success]]
                         /\ IF w.exited
                            THEN Exit(1) /\ UNCHANGED healthy
                            ELSE /\ healthy' = healthy + (IF w.success THEN 0 ELSE 1)
                                 /\ pc' = "return"
                                 /\ UNCHANGED exit_code
  /\ UNCHANGED <<cliargs, deployVars, version, analyzeVars>>

\* main(): return healthy, which sys.exit() turns into the exit code
HealthReturn ==
  /\ pc = "return"
  /\ pc' = "done"
  /\ exit_code' = healthy
  /\ UNCHANGED <<cliargs, deployVars, healthVars, analyzeVars>>

HealthNext ==
  \/ get_version
  \/ check_clusterversion
  \/ check_clusteroperators
  \/ check_nodes
  \/ check_machineconfigpools
  \/ check_etcd_leader_elections
  \/ HealthReturn

HealthSpec == HealthInit /\ [][HealthNext]_vars

\* ------------------------------------------- cluster-health: force and exit code

\* position of a group in the order of main()
GroupIndex(g) == CHOOSE i \in DOMAIN HealthGroups : HealthGroups[i] = g

\* the groups that ran to their end with at least one failing condition
FailedGroups ==
  {g \in Range(HealthGroups) : checks[g].state = "done" /\ ~checks[g].success}

\* the health check has ended, by return or by sys.exit
HealthEnded == pc \in {"done", "exit"}

\* C33: without force the process exits with code 1 at the first failing
\* health condition and no later check runs; with force every non-skipped
\* check group runs to its end and the exit code is the number of groups (0
\* to 5) with a failing condition; a skipped group is never counted.
C33_ExitCodeCountsFailedGroups ==
  /\ ~cliargs.force =>
       \A g \in Range(HealthGroups) :
         /\ checks[g].state = "done" => checks[g].success
         /\ checks[g].state = "exited" =>
              /\ pc = "exit" /\ exit_code = 1
              /\ FailsAt(g, output, checks[g].evaluated)
              /\ \A n \in 1..(checks[g].evaluated - 1) : ~FailsAt(g, output, n)
              /\ \A h \in Range(HealthGroups) :
                   GroupIndex(h) > GroupIndex(g) => checks[h].state = "pending"
  /\ (cliargs.force /\ HealthEnded) =>
       /\ \A g \in Range(HealthGroups) :
            IF Skipped(cliargs, g)
            THEN checks[g].state = "skipped" /\ g \notin FailedGroups
            ELSE /\ checks[g].state = "done"
                 /\ checks[g].evaluated = checks[g].total
       /\ exit_code = Cardinality(FailedGroups)
       /\ exit_code \in 0..5

\* C34: a command that returns a non-zero exit code ends the process with
\* exit code 1 unless force is set; with force the process does not end
\* there and the remaining checks still run.
C34_ForceSurvivesCommandFailure ==
  /\ (last_rc # 0 /\ ~cliargs.force) => (pc = "exit" /\ exit_code = 1)
  /\ (last_rc # 0 /\ cliargs.force) => pc # "exit"
  /\ (cliargs.force /\ HealthEnded) =>
       \A g \in Range(HealthGroups) :
         ~Skipped(cliargs, g) => checks[g].state \in {"done", "no_data"}

\* --------------------------------------------- analyze-sno-clusterversion.py

\* what the analysis leaves alone
analyzeFrame ==
  <<cliargs, env, discVars, loopVars, last_ztp_app_index, ztp_app_index,
    git_files, repoVars, histVars, monitor_data, monVars, now, waitVars,
    end_time, git_failed, apply_failed, raceVars, version, healthy, checks>>

\* the versions and states a clusterversion history entry can carry
VersionNames == {"4.9", "4.10"}
HistoryStates == {"Completed", "Partial"}
HistoryEntries == [version : VersionNames, state : HistoryStates]

\* status.history of one unit: up to MaxEntries entries in any order
Histories == UNION {[1..n -> HistoryEntries] : n \in 0..MaxEntries}

AnalyzeInit ==
  /\ cliargs = BaseArgs
  /\ env = BaseEnv
  /\ pc = "list_units"
  /\ exit_code = NoIndex
  /\ sno_list = <<>>
  /\ ztp_deploy_apps = <<>>
  /\ total_intervals = 0
  /\ start_sno_index = 0
  /\ end_sno_index = 0
  /\ start_interval_time = 0
  /\ idx = 0
  /\ last_ztp_app_index = 0
  /\ ztp_app_index = NoIndex
  /\ git_files = <<>>
  /\ disk = {}
  /\ manifests = <<>>
  /\ renders = <<>>
  /\ commits = <<>>
  /\ pushes = 0
  /\ released = <<>>
  /\ step_sizes = <<>>
  /\ report_dir = FALSE
  /\ monitor_data = ZeroCounters
  /\ monitor_thread = "new"
  /\ signal = TRUE
  /\ now = 0
  /\ wait_sno_start_time = 0
  /\ wait_du_profile_start_time = 0
  /\ sno_outcome = "none"
  /\ du_outcome = "none"
  /\ end_time = 0
  /\ git_failed = FALSE
  /\ apply_failed = FALSE
  /\ fleet = ZeroCounters
  /\ pending = {}
  /\ reads = <<>>
  /\ last_rc = 0
  /\ output = <<>>
  /\ version = <<>>
  /\ healthy = 0
  /\ checks = <<>>
  /\ aci_snos = <<>>
  /\ sno_pos = 0
  /\ snos_unreachable = <<>>
  /\ snos_ver_data = <<>>
  /\ snos_duplicate_entries = <<>>
  /\ seen = {}

\* main(): oc get agentclusterinstalls (sys.exit(1) when it fails) and the
\* list of the units whose install completed
ListUnits ==
  /\ pc = "list_units"
  /\ \E r \in {0, 1} :
        /\ last_rc' = r
        /\ IF r # 0
           THEN Exit(1) /\ UNCHANGED aci_snos
           ELSE /\ \E n \in 0..MaxClusters : aci_snos' = [i \in 1..n |-> i]
                /\ pc' = "sno_loop"
                /\ UNCHANGED exit_code
  /\ UNCHANGED <<analyzeFrame, idx, output, sno_pos, snos_unreachable,
                 snos_ver_data, snos_duplicate_entries, seen>>

\* main(): oc get clusterversion of the next unit; a unit that does not
\* answer is listed as unreachable and passed over
FetchHistory ==
  /\ pc = "sno_loop"
  /\ sno_pos < Len(aci_snos)
  /\ \E r \in {0, 1} :
        /\ last_rc' = r
        /\ IF r # 0
           THEN /\ snos_unreachable' = Append(snos_unreachable, aci_snos[sno_pos + 1])
                /\ sno_pos' = sno_pos + 1
                /\ UNCHANGED <<pc, output, idx>>
           ELSE /\ output' \in Histories
                /\ idx' = 0
                /\ pc' = "entries"
                /\ UNCHANGED <<snos_unreachable, sno_pos>>
  /\ UNCHANGED <<analyzeFrame, exit_code, aci_snos, snos_ver_data,
                 snos_duplicate_entries, seen>>

\* the keys a version or a state gets when it is first met
NewVersion == [state |-> <<>>, count |-> 0, completed_durations |-> <<>>]

WithVersion(data, v) ==
  IF v \in DOMAIN data THEN data ELSE (v :> NewVersion) @@ data

WithState(data, v, st) ==
  IF st \in DOMAIN data[v].state THEN data
  ELSE [data EXCEPT ![v].state = (st :> <<>>) @@ @]

\* "state in ...[state] and sno in ...[state][state]"
ListedUnder(data, v, st, s) ==
  st \in DOMAIN data[v].state /\ s \in Range(data[v].state[st])

\* list.remove(x): the list without the first x
RECURSIVE Remove(_, _)
Remove(q, x) ==
  IF q = <<>> THEN <<>>
  ELSE IF Head(q) = x THEN Tail(q) ELSE <<Head(q)>> \o Remove(Tail(q), x)

\* "if sno not in snos_duplicate_entries: snos_duplicate_entries.append(sno)"
AddDuplicate(dups, s) == IF s \in Range(dups) THEN dups ELSE Append(dups, s)

\* faulty variant: the partial entry of a completed unit stays listed
DropPartialNever(data, v, s) == [data EXCEPT ![v].count = @ - 1]

\* lines 125-126: the unit leaves the Partial list and the count goes down
DropPartial(data, v, s) ==
  [data EXCEPT ![v].state["Partial"] = Remove(@, s), ![v].count = @ - 1]

\* lines 107-115: the unit is listed under the state of the entry, unless it
\* is there already or is listed under Completed
Listing(data, dups, v, st, s) ==
  IF ListedUnder(data, v, st, s) THEN [data |-> data, dups |-> dups]
  ELSE IF ListedUnder(data, v, "Completed", s)
       THEN [data |-> data, dups |-> AddDuplicate(dups, s)]
       ELSE [data |-> [data EXCEPT ![v].state[st] = Append(@, s),
                                   ![v].count = @ + 1],
             dups |-> dups]

\* lines 116-128: a Completed entry adds its duration and takes the unit
\* out of the Partial list
Completion(data, dups, v, st, s) ==
  IF st # "Completed" THEN [data |-> data, dups |-> dups]
  ELSE LET timed == [data EXCEPT ![v].completed_durations = Append(@, s)]
       IN IF ListedUnder(timed, v, "Partial", s)
          THEN [data |-> DropPartial(timed, v, s),
                dups |-> AddDuplicate(dups, s)]
          ELSE [data |-> timed, dups |-> dups]

\* main(): one entry of the unit's history, lines 94-130
ProcessEntry ==
  /\ pc = "entries"
  /\ idx < Len(output)
  /\ LET s == aci_snos[sno_pos + 1]
         v == output[idx + 1].version
         st == output[idx + 1].state
         keyed == WithState(WithVersion(snos_ver_data, v), v, st)
         listed == Listing(keyed, snos_duplicate_entries, v, st, s)
         final == Completion(listed.data, listed.dups, v, st, s)
     IN /\ snos_ver_data' = final.data
        /\ snos_duplicate_entries' = final.dups
        /\ seen' = seen \cup {<<s, v, st>>}
  /\ idx' = idx + 1
  /\ UNCHANGED <<analyzeFrame, pc, exit_code, last_rc, output, aci_snos,
                 sno_pos, snos_unreachable>>

\* main(): the history is exhausted, on to the next unit
NextSno ==
  /\ pc = "entries"
  /\ idx = Len(output)
  /\ sno_pos' = sno_pos + 1
  /\ pc' = "sno_loop"
  /\ UNCHANGED <<analyzeFrame, exit_code, idx, last_rc, output, aci_snos,
                 snos_unreachable, snos_ver_data, snos_duplicate_entries, seen>>

\* main(): the statistics.  The percentage of unreachable units divides by
\* the number of units, and np.min() of a version without a completed
\* duration raises: both end the process with a traceback
WriteStats ==
  /\ pc = "sno_loop"
  /\ sno_pos = Len(aci_snos)
  /\ IF \/ Len(aci_snos) = 0
        \/ \E v \in DOMAIN snos_ver_data :
             snos_ver_data[v].completed_durations = <<>>
     THEN Exit(1)
     ELSE pc' = "done" /\ exit_code' = 0
  /\ UNCHANGED <<analyzeFrame, idx, last_rc, output, analyzeVars>>

AnalyzeNext ==
  \/ ListUnits
  \/ FetchHistory
  \/ ProcessEntry
  \/ NextSno
  \/ WriteStats

AnalyzeSpec == AnalyzeInit /\ [][AnalyzeNext]_vars

\* ---------------------------------------------- analyze: a completed entry wins

\* the analysis stands between two units or has ended
EntriesProcessed == pc \in {"sno_loop", "done"} \/ (pc = "exit" /\ aci_snos # <<>>)

\* the units listed under a state of a version
UnitsListed(v, st) ==
  IF v \in DOMAIN snos_ver_data /\ st \in DOMAIN snos_ver_data[v].state
  THEN snos_ver_data[v].state[st] ELSE <<>>

\* a unit has both a Completed and a Partial entry for one version
HasDuplicateHistory(s) ==
  \E v \in VersionNames :
    <<s, v, "Completed">> \in seen /\ <<s, v, "Partial">> \in seen

\* C35: once all entries of a unit are processed, in whatever order they
\* came, a unit with a Completed entry for a version is listed under
\* Completed and not under Partial for that version, every unit with a
\* Completed and a Partial entry for one version is recorded once as having
\* duplicate history, and the count of a version is the number of units
\* listed over all its states.
C35_CompletedWins ==
  EntriesProcessed =>
    /\ \A s \in Range(aci_snos), v \in VersionNames :
         <<s, v, "Completed">> \in seen =>
           /\ s \in Range(UnitsListed(v, "Completed"))
           /\ s \notin Range(UnitsListed(v, "Partial"))
    /\ \A s \in Range(aci_snos) :
         HasDuplicateHistory(s) <=> s \in Range(snos_duplicate_entries)
    /\ NoDuplicates(snos_duplicate_entries)
    /\ \A v \in DOMAIN snos_ver_data :
         /\ snos_ver_data[v].count =
              Len(UnitsListed(v, "Completed")) + Len(UnitsListed(v, "Partial"))
         /\ NoDuplicates(UnitsListed(v, "Completed"))
         /\ NoDuplicates(UnitsListed(v, "Partial"))

\* C35 witness: the analysis has ended after two units, the first with a
\* Partial entry processed before and the second after the Completed entry
\* of the same version; both are recorded as duplicates and neither is
\* listed under Partial.
C35_Witness ==
  /\ pc = "done"
  /\ Len(aci_snos) = 2
  /\ snos_duplicate_entries = <<1, 2>>
  /\ output = <<[version |-> "4.9", state |-> "Completed"],
                [version |-> "4.9", state |-> "Partial"]>>
  /\ UnitsListed("4.9", "Completed") = <<1, 2>>
  /\ UnitsListed("4.9", "Partial") = <<>>
  /\ snos_ver_data["4.9"].count = 2
  /\ Len(snos_ver_data["4.9"].completed_durations) = 2

====
